---- MODULE Spec2Model ----
(***************************************************************************)
(* ThrottleAI: the Governor facade and the components it composes          *)
(* (LeaseStore, ConcurrencyPool, RatePool, TokenRatePool, FairnessTracker, *)
(* AdaptiveController).  Every public operation of the Governor is one     *)
(* action; the injected clock and the reaper timer are the environment.    *)
(*                                                                         *)
(* Numbers that are floating point in the source (EMA values, ratios) are  *)
(* exact rationals <<numerator, denominator>> here.                        *)
(***************************************************************************)
EXTENDS Integers, Naturals, Sequences, FiniteSets, TLC

VARIABLES
    cfg,             \* GovernorConfig handed to the constructor
    now,             \* the injected clock (utils/time.ts now())
    leases,          \* LeaseStore._leases: the set of stored Lease records
    byIdempotency,   \* LeaseStore._byIdempotency: key -> leaseId (NoLease = absent)
    reaperOn,        \* LeaseStore._reaperTimer !== null
    inFlightWeight,  \* ConcurrencyPool._inFlightWeight
    effectiveMax,    \* ConcurrencyPool._effectiveMax
    timestamps,      \* RatePool._timestamps from _head on
    entries,         \* TokenRatePool._entries from _head on
    lastEntryAt,     \* timestamp of the last element of TokenRatePool._entries (NoTime = empty)
    actorWeight,     \* FairnessTracker._actorWeight (0 = no entry)
    deniedAt,        \* FairnessTracker._deniedAt (NoTime = no entry)
    ad,              \* AdaptiveController fields
    releasedIds,     \* Governor._releasedIds, in insertion order (strict mode only)
    releaseLog,      \* history: the ids release() took out of the store, in order (strict mode)
    nextId,          \* number of lease ids issued so far (newLeaseId is fresh each call)
    events,          \* history: the acquire, release and expire events handed to onEvent
    grantLog,        \* history: the clock readings of the fresh grants under a request-rate cap
    wl,              \* the withLease calls: where each one stands, its locals and its result
    last             \* the operation that produced this state, and what it returned

vars == <<cfg, now, leases, byIdempotency, reaperOn, inFlightWeight, effectiveMax,
          timestamps, entries, lastEntryAt, actorWeight, deniedAt, ad, releasedIds,
          releaseLog, nextId, events, grantLog, wl, last>>

----------------------------------------------------------------------------
(* Bounds of the exploration *)

MaxTime == 2        \* the clock runs over 0..MaxTime
MaxIds == 2         \* at most this many leases are issued in one behaviour
MaxDenials == 1     \* at most this many denials are counted in one adaptive interval
\* ids the strict-mode cache of released ids holds (Governor._RELEASED_CACHE_SIZE is
\* 10 000; scaled down so that a run can fill it)
RELEASED_CACHE_SIZE == 1

Actors == {"a", "b"}
NoKey == "none"
Keys == {"k1"}
Priorities == {"interactive", "background"}
Weights == {1, 2}
PromptTokens == {0, 1}         \* promptTokens of a request
MaxOutputTokens == {1}         \* maxOutputTokens of a request
NoUsage == [promptTokens |-> -1, outputTokens |-> -1]    \* a report without usage
Usages == {NoUsage} \cup [promptTokens : {0, 1}, outputTokens : {0, 2}]
NoLatency == -1
Latencies == {NoLatency, 2}    \* latencyMs of a release report

NoLease == 0
NoTime == -1
NoRetry == -1                  \* the retryAfterMs of a decision that has none

----------------------------------------------------------------------------
(* Exact rationals *)

RECURSIVE GCD(_, _)
GCD(a, b) == IF b = 0 THEN a ELSE GCD(b, a % b)

Norm(n, d) == IF n = 0 THEN <<0, 1>> ELSE LET g == GCD(n, d) IN <<n \div g, d \div g>>
RAdd(x, y) == Norm(x[1] * y[2] + y[1] * x[2], x[2] * y[2])
RMul(x, y) == Norm(x[1] * y[1], x[2] * y[2])
RLess(x, y) == x[1] * y[2] < y[1] * x[2]
RLeq(x, y) == x[1] * y[2] <= y[1] * x[2]
ROne == <<1, 1>>
RZero == <<0, 1>>
RSub1(x) == Norm(x[2] - x[1], x[2])      \* 1 - x, for 0 <= x <= 1

Max(a, b) == IF a >= b THEN a ELSE b
Min(a, b) == IF a <= b THEN a ELSE b

RECURSIVE SumWeights(_)
SumWeights(S) ==
    IF S = {} THEN 0
    ELSE LET l == CHOOSE x \in S : TRUE IN l.weight + SumWeights(S \ {l})

----------------------------------------------------------------------------
(* Configurations.  Times are in clock units. *)

DefaultAdaptive ==
    [alpha |-> <<1, 1>>, targetDenyRate |-> <<1, 20>>, latencyThreshold |-> <<3, 2>>,
     adjustIntervalMs |-> 1, minConcurrency |-> 1]

Configs == {
    \* concurrency with an interactive reserve, adaptive tuning
    [maxInFlight |-> 2, interactiveReserve |-> 1, leaseTtlMs |-> 2,
     rate |-> FALSE, requestsPerMinute |-> 0, tokenRate |-> FALSE, tokensPerMinute |-> 0,
     windowMs |-> 2, fairness |-> FALSE, softCapRatio |-> <<3, 5>>, starvationWindowMs |-> 2,
     adaptive |-> TRUE, adaptiveConfig |-> DefaultAdaptive,
     strict |-> FALSE, onEvent |-> "none"],
    \* concurrency, fairness and request rate
    [maxInFlight |-> 3, interactiveReserve |-> 0, leaseTtlMs |-> 2,
     rate |-> TRUE, requestsPerMinute |-> 1, tokenRate |-> FALSE, tokensPerMinute |-> 0,
     windowMs |-> 2, fairness |-> TRUE, softCapRatio |-> <<1, 2>>, starvationWindowMs |-> 2,
     adaptive |-> FALSE, adaptiveConfig |-> DefaultAdaptive,
     strict |-> FALSE, onEvent |-> "none"],
    \* concurrency, request rate and token rate
    [maxInFlight |-> 2, interactiveReserve |-> 0, leaseTtlMs |-> 2,
     rate |-> TRUE, requestsPerMinute |-> 2, tokenRate |-> TRUE, tokensPerMinute |-> 3,
     windowMs |-> 2, fairness |-> FALSE, softCapRatio |-> <<3, 5>>, starvationWindowMs |-> 2,
     adaptive |-> FALSE, adaptiveConfig |-> DefaultAdaptive,
     strict |-> FALSE, onEvent |-> "none"]
}

----------------------------------------------------------------------------
(* utils/retry.ts *)

RETRY_MIN_MS == 25
RETRY_MAX_MS == 5000

\* Math.round of the rational x: the nearest integer, a half rounds up
MathRound(x) == (2 * x[1] + x[2]) \div (2 * x[2])

\* clampRetry that forgets the upper bound
Mut_clampRetry_noMax(ms) == Max(RETRY_MIN_MS, MathRound(<<ms, 1>>))

\* clampRetry(ms)
clampRetry(ms) == Max(RETRY_MIN_MS, Min(RETRY_MAX_MS, MathRound(<<ms, 1>>)))

\* an optional number is a sequence: <<>> is `undefined`, <<v>> is the number v
Undefined == <<>>

----------------------------------------------------------------------------
(* LeaseStore *)

HasLease(ls, id) == \E l \in ls : l.leaseId = id
LeaseOf(ls, id) == CHOOSE l \in ls : l.leaseId = id

\* add(lease) that forgets the idempotency index
Mut_add_noIndex(ls, idx, lease) == [leases |-> ls \cup {lease}, byIdempotency |-> idx]

\* add(lease): store it and index it by its idempotency key when it has one
LeaseStore_add(ls, idx, lease) ==
    [leases |-> ls \cup {lease},
     byIdempotency |-> IF lease.idempotencyKey # NoKey
                       THEN [idx EXCEPT ![lease.idempotencyKey] = lease.leaseId]
                       ELSE idx]

\* remove(leaseId) that returns the lease without deleting it
Mut_remove_keepsLease(ls, idx, id) ==
    IF ~HasLease(ls, id)
    THEN [found |-> FALSE, leases |-> ls, byIdempotency |-> idx]
    ELSE [found |-> TRUE, lease |-> LeaseOf(ls, id), leases |-> ls, byIdempotency |-> idx]

\* remove(leaseId) that hands back a placeholder lease for an id it does not hold
Mut_remove_placeholder(ls, idx, id) ==
    IF ~HasLease(ls, id)
    THEN [found |-> TRUE,
          lease |-> [leaseId |-> id, actorId |-> "a", weight |-> 1, idempotencyKey |-> NoKey,
                     createdAt |-> 0, expiresAt |-> 0],
          leases |-> ls, byIdempotency |-> idx]
    ELSE LET lease == LeaseOf(ls, id) IN
         [found |-> TRUE, lease |-> lease, leases |-> ls \ {lease},
          byIdempotency |-> IF lease.idempotencyKey # NoKey
                            THEN [idx EXCEPT ![lease.idempotencyKey] = NoLease]
                            ELSE idx]

\* remove(leaseId): found = FALSE is the `undefined` return
LeaseStore_remove(ls, idx, id) ==
    IF ~HasLease(ls, id)
    THEN [found |-> FALSE, leases |-> ls, byIdempotency |-> idx]
    ELSE LET lease == LeaseOf(ls, id) IN
         [found |-> TRUE, lease |-> lease, leases |-> ls \ {lease},
          byIdempotency |-> IF lease.idempotencyKey # NoKey
                            THEN [idx EXCEPT ![lease.idempotencyKey] = NoLease]
                            ELSE idx]

\* getByIdempotencyKey(key): a stale index entry is deleted on the way
LeaseStore_getByIdempotencyKey(ls, idx, key) ==
    IF idx[key] = NoLease
    THEN [found |-> FALSE, byIdempotency |-> idx]
    ELSE IF ~HasLease(ls, idx[key])
         THEN [found |-> FALSE, byIdempotency |-> [idx EXCEPT ![key] = NoLease]]
         ELSE [found |-> TRUE, lease |-> LeaseOf(ls, idx[key]), byIdempotency |-> idx]

\* earliestExpiry(): the minimum expiresAt among all leases, `undefined` when empty
LeaseStore_earliestExpiry(ls) ==
    IF ls = {}
    THEN Undefined
    ELSE <<CHOOSE e \in {l.expiresAt : l \in ls} : \A l \in ls : e <= l.expiresAt>>

\* a sweep that reaps only strictly after expires_at
Mut_Expired_strict(lease, t) == lease.expiresAt < t

\* does _sweep() at clock reading t reap this lease
Expired(lease, t) == lease.expiresAt <= t

\* a sweep that deletes the expired leases and leaves their index entries
Mut_sweep_keepsIndex(ls, idx, t) ==
    LET expired == {l \in ls : Expired(l, t)} IN
    [expired |-> expired, leases |-> ls \ expired, byIdempotency |-> idx]

\* _sweep(): delete every expired lease and its index entry, return the expired ones
LeaseStore_sweep(ls, idx, t) ==
    LET expired == {l \in ls : Expired(l, t)} IN
    [expired |-> expired,
     leases |-> ls \ expired,
     byIdempotency |-> [k \in DOMAIN idx |->
                          IF \E l \in expired : l.idempotencyKey = k THEN NoLease ELSE idx[k]]]

----------------------------------------------------------------------------
(* ConcurrencyPool *)

\* tryAcquire whose capacity check is off by one
Mut_tryAcquire_offByOne(eff, inflight, reserve, priority, weight) ==
    LET availableWeight == eff - inflight IN
    IF availableWeight + 1 < weight
    THEN [ok |-> FALSE, inFlightWeight |-> inflight]
    ELSE IF priority = "background" /\ availableWeight - weight < reserve
         THEN [ok |-> FALSE, inFlightWeight |-> inflight]
         ELSE [ok |-> TRUE, inFlightWeight |-> inflight + weight]

\* tryAcquire whose capacity check counts slots instead of weight
Mut_tryAcquire_countSlots(eff, inflight, reserve, priority, weight) ==
    LET availableWeight == eff - inflight IN
    IF availableWeight < 1
    THEN [ok |-> FALSE, inFlightWeight |-> inflight]
    ELSE IF priority = "background" /\ availableWeight - weight < reserve
         THEN [ok |-> FALSE, inFlightWeight |-> inflight]
         ELSE [ok |-> TRUE, inFlightWeight |-> inflight + weight]

\* tryAcquire that keeps background callers one unit further from the reserve
Mut_tryAcquire_reserveLeq(eff, inflight, reserve, priority, weight) ==
    LET availableWeight == eff - inflight IN
    IF availableWeight < weight
    THEN [ok |-> FALSE, inFlightWeight |-> inflight]
    ELSE IF priority = "background" /\ availableWeight - weight <= reserve
         THEN [ok |-> FALSE, inFlightWeight |-> inflight]
         ELSE [ok |-> TRUE, inFlightWeight |-> inflight + weight]

\* a reserve check that forgets the weight being asked for
Mut_tryAcquire_reserveNoWeight(eff, inflight, reserve, priority, weight) ==
    LET availableWeight == eff - inflight IN
    IF availableWeight < weight
    THEN [ok |-> FALSE, inFlightWeight |-> inflight]
    ELSE IF priority = "background" /\ availableWeight < reserve
         THEN [ok |-> FALSE, inFlightWeight |-> inflight]
         ELSE [ok |-> TRUE, inFlightWeight |-> inflight + weight]

\* tryAcquire(priority, _, weight): ok and the in-flight weight afterwards
ConcurrencyPool_tryAcquire(eff, inflight, reserve, priority, weight) ==
    LET availableWeight == eff - inflight IN
    IF availableWeight < weight
    THEN [ok |-> FALSE, inFlightWeight |-> inflight]
    ELSE IF priority = "background" /\ availableWeight - weight < reserve
         THEN [ok |-> FALSE, inFlightWeight |-> inflight]
         ELSE [ok |-> TRUE, inFlightWeight |-> inflight + weight]

\* release that gives back one unit whatever the weight
\* _computeRetry that takes the time to the earliest expiry even when it is not positive
Mut_computeRetry_nonPositive(eff, inflight, earliestExpiryMs) ==
    IF earliestExpiryMs # Undefined
    THEN clampRetry(earliestExpiryMs[1])
    ELSE clampRetry(MathRound(RAdd(<<250, 1>>,
                                   RMul(Norm(inflight, IF eff = 0 THEN 1 ELSE eff),
                                        <<750, 1>>))))

\* _computeRetry(earliestExpiryMs): the time to the earliest expiry when it is known and
\* positive, else round(250 + pressure * 750) with pressure = inFlightWeight / effectiveMax
ConcurrencyPool_computeRetry(eff, inflight, earliestExpiryMs) ==
    IF earliestExpiryMs # Undefined /\ earliestExpiryMs[1] > 0
    THEN clampRetry(earliestExpiryMs[1])
    ELSE clampRetry(MathRound(RAdd(<<250, 1>>,
                                   RMul(Norm(inflight, IF eff = 0 THEN 1 ELSE eff),
                                        <<750, 1>>))))

Mut_release_unit(inflight, weight) == Max(0, inflight - 1)

\* release(weight)
ConcurrencyPool_release(inflight, weight) == Max(0, inflight - weight)

\* set effectiveMax(value)
ConcurrencyPool_setEffectiveMax(maxWeight, value) == Max(1, Min(maxWeight, value))

----------------------------------------------------------------------------
(* RatePool: the array from _head on; _prune advances _head past old entries *)

\* a prune that keeps the entries lying exactly on the cutoff
RECURSIVE Mut_ratePrune_keepsCutoff(_, _)
Mut_ratePrune_keepsCutoff(ts, cutoff) ==
    IF Len(ts) > 0 /\ Head(ts) < cutoff
    THEN Mut_ratePrune_keepsCutoff(Tail(ts), cutoff)
    ELSE ts

\* _prune(): _head moves past every timestamp <= now() - windowMs
RECURSIVE RatePool_prune(_, _)
RatePool_prune(ts, cutoff) ==
    IF Len(ts) > 0 /\ Head(ts) <= cutoff THEN RatePool_prune(Tail(ts), cutoff) ELSE ts

\* tryAcquire that records the request before it compares the count with the limit
Mut_rateTryAcquire_records(ts, t, c) ==
    LET pruned == RatePool_prune(ts, t - c.windowMs) IN
    [ok |-> ~(Len(pruned) >= c.requestsPerMinute), timestamps |-> Append(pruned, t)]

\* tryAcquire that lets one request more than the limit into the window
Mut_rateTryAcquire_offByOne(ts, t, c) ==
    LET pruned == RatePool_prune(ts, t - c.windowMs) IN
    [ok |-> ~(Len(pruned) > c.requestsPerMinute), timestamps |-> pruned]

\* tryAcquire(): prune, then admit while fewer than the limit are counted
RatePool_tryAcquire(ts, t, c) ==
    LET pruned == RatePool_prune(ts, t - c.windowMs) IN
    [ok |-> ~(Len(pruned) >= c.requestsPerMinute), timestamps |-> pruned]

\* tryAcquire(), the retryAfterMs of a denial: when the oldest counted request leaves
\* the window
RatePool_retryAfterMs(ts, t, c) ==
    clampRetry(Head(RatePool_prune(ts, t - c.windowMs)) + c.windowMs - t)

RatePool_record(ts, t) == Append(ts, t)

\* get currentCount
RatePool_currentCount(ts, t, c) == Len(RatePool_prune(ts, t - c.windowMs))

----------------------------------------------------------------------------
(* TokenRatePool *)

RECURSIVE TokenRatePool_prune(_, _)
TokenRatePool_prune(es, cutoff) ==
    IF Len(es) > 0 /\ Head(es).timestamp <= cutoff
    THEN TokenRatePool_prune(Tail(es), cutoff)
    ELSE es

RECURSIVE TokenRatePool_sumTokens(_)
TokenRatePool_sumTokens(es) ==
    IF Len(es) = 0 THEN 0 ELSE Head(es).tokens + TokenRatePool_sumTokens(Tail(es))

TokenRatePool_tryAcquire(es, estimatedTokens, t, c) ==
    LET pruned == TokenRatePool_prune(es, t - c.windowMs) IN
    [ok |-> ~(TokenRatePool_sumTokens(pruned) + estimatedTokens > c.tokensPerMinute),
     entries |-> pruned]

\* the loop of _computeRetryMs over the live entries es: the expiry of the first entry
\* with which freed reaches surplus, `undefined` when all of them do not free enough
RECURSIVE TokenRatePool_walk(_, _, _, _, _)
TokenRatePool_walk(es, freed, surplus, t, c) ==
    IF Len(es) = 0
    THEN Undefined
    ELSE IF freed + Head(es).tokens >= surplus
         THEN <<Head(es).timestamp + c.windowMs - t>>
         ELSE TokenRatePool_walk(Tail(es), freed + Head(es).tokens, surplus, t, c)

\* _computeRetryMs(needed) on the pruned entries es; lastAt is the timestamp of the last
\* element of the whole array, which may lie before _head
TokenRatePool_computeRetryMs(es, needed, lastAt, t, c) ==
    IF TokenRatePool_sumTokens(es) + needed - c.tokensPerMinute <= 0
    THEN 0
    ELSE IF TokenRatePool_walk(es, 0, TokenRatePool_sumTokens(es) + needed
                                       - c.tokensPerMinute, t, c) # Undefined
         THEN TokenRatePool_walk(es, 0, TokenRatePool_sumTokens(es) + needed
                                        - c.tokensPerMinute, t, c)[1]
         ELSE IF lastAt # NoTime THEN lastAt + c.windowMs - t ELSE c.windowMs

\* tryAcquire(estimatedTokens), the retryAfterMs of a denial
TokenRatePool_retryAfterMs(es, estimatedTokens, lastAt, t, c) ==
    clampRetry(TokenRatePool_computeRetryMs(TokenRatePool_prune(es, t - c.windowMs),
                                            estimatedTokens, lastAt, t, c))

\* record() that drops the lease tag
Mut_tokenRecord_untagged(es, estimatedTokens, leaseId, t) ==
    Append(es, [timestamp |-> t, tokens |-> estimatedTokens, leaseId |-> NoLease])

\* record(estimatedTokens, leaseId)
TokenRatePool_record(es, estimatedTokens, leaseId, t) ==
    Append(es, [timestamp |-> t, tokens |-> estimatedTokens, leaseId |-> leaseId])

\* updateActual(leaseId, actualTokens): the last entry tagged with leaseId
TokenRatePool_updateActual(es, leaseId, actualTokens) ==
    IF \E i \in 1..Len(es) : es[i].leaseId = leaseId
    THEN LET i == CHOOSE j \in 1..Len(es) :
                    /\ es[j].leaseId = leaseId
                    /\ \A k \in (j+1)..Len(es) : es[k].leaseId # leaseId
         IN [es EXCEPT ![i].tokens = actualTokens]
    ELSE es

\* get currentTokens
TokenRatePool_currentTokens(es, t, c) ==
    TokenRatePool_sumTokens(TokenRatePool_prune(es, t - c.windowMs))

----------------------------------------------------------------------------
(* FairnessTracker *)

\* a soft-cap test that forgets the weight being asked for
Mut_fairCheck_noRequestWeight(aw, da, actorId, requestWeight, maxWeight, currentInFlight, t, c) ==
    IF currentInFlight * 2 < maxWeight
    THEN [ok |-> TRUE, deniedAt |-> da]
    ELSE IF aw[actorId] * c.softCapRatio[2] > maxWeight * c.softCapRatio[1]
         THEN IF da[actorId] # NoTime /\ t - da[actorId] < c.starvationWindowMs
              THEN [ok |-> TRUE, deniedAt |-> [da EXCEPT ![actorId] = NoTime]]
              ELSE [ok |-> FALSE, deniedAt |-> da]
         ELSE [ok |-> TRUE, deniedAt |-> da]

\* a starvation pass that is never used up
Mut_fairCheck_keepsPass(aw, da, actorId, requestWeight, maxWeight, currentInFlight, t, c) ==
    IF currentInFlight * 2 < maxWeight
    THEN [ok |-> TRUE, deniedAt |-> da]
    ELSE IF (aw[actorId] + requestWeight) * c.softCapRatio[2] > maxWeight * c.softCapRatio[1]
         THEN IF da[actorId] # NoTime /\ t - da[actorId] < c.starvationWindowMs
              THEN [ok |-> TRUE, deniedAt |-> da]
              ELSE [ok |-> FALSE, deniedAt |-> da]
         ELSE [ok |-> TRUE, deniedAt |-> da]

\* a starvation pass that is still honoured when the denial is exactly one window old
Mut_fairCheck_passAtWindowEnd(aw, da, actorId, requestWeight, maxWeight, currentInFlight, t, c) ==
    IF currentInFlight * 2 < maxWeight
    THEN [ok |-> TRUE, deniedAt |-> da]
    ELSE IF (aw[actorId] + requestWeight) * c.softCapRatio[2] > maxWeight * c.softCapRatio[1]
         THEN IF da[actorId] # NoTime /\ t - da[actorId] <= c.starvationWindowMs
              THEN [ok |-> TRUE, deniedAt |-> [da EXCEPT ![actorId] = NoTime]]
              ELSE [ok |-> FALSE, deniedAt |-> da]
         ELSE [ok |-> TRUE, deniedAt |-> da]

\* check(actorId, requestWeight, maxWeight, currentInFlight)
FairnessTracker_check(aw, da, actorId, requestWeight, maxWeight, currentInFlight, t, c) ==
    IF currentInFlight * 2 < maxWeight                      \* < maxWeight * 0.5
    THEN [ok |-> TRUE, deniedAt |-> da]
    ELSE IF (aw[actorId] + requestWeight) * c.softCapRatio[2] > maxWeight * c.softCapRatio[1]
         THEN IF da[actorId] # NoTime /\ t - da[actorId] < c.starvationWindowMs
              THEN [ok |-> TRUE, deniedAt |-> [da EXCEPT ![actorId] = NoTime]]
              ELSE [ok |-> FALSE, deniedAt |-> da]
         ELSE [ok |-> TRUE, deniedAt |-> da]

FairnessTracker_recordAcquire(aw, actorId, weight) ==
    [aw EXCEPT ![actorId] = @ + weight]

\* recordRelease that gives back one unit whatever the weight
Mut_recordRelease_unit(aw, actorId, weight) == [aw EXCEPT ![actorId] = Max(0, @ - 1)]

FairnessTracker_recordRelease(aw, actorId, weight) ==
    [aw EXCEPT ![actorId] = Max(0, @ - weight)]

FairnessTracker_recordDenial(da, actorId, t) == [da EXCEPT ![actorId] = t]

----------------------------------------------------------------------------
(* AdaptiveController *)

RECURSIVE SeqSum(_)
SeqSum(q) == IF Len(q) = 0 THEN 0 ELSE Head(q) + SeqSum(Tail(q))

AdaptiveInit(maxConcurrency) ==
    [effectiveConcurrency |-> maxConcurrency,
     emaLatency |-> RZero, baselineLatency |-> RZero, emaDenyRate |-> RZero,
     intervalAcquires |-> 0, intervalDenials |-> 0, latencySamples |-> <<>>,
     lastAdjust |-> 0, hasBaseline |-> FALSE]

AdaptiveController_recordAcquire(a) == [a EXCEPT !.intervalAcquires = @ + 1]

AdaptiveController_recordDenial(a) == [a EXCEPT !.intervalDenials = @ + 1]

AdaptiveController_recordLatency(a, latencyMs) ==
    IF latencyMs > 0 THEN [a EXCEPT !.latencySamples = Append(@, latencyMs)] ELSE a

AdaptiveController_shouldReduce(a, c) ==
    \/ RLess(c.targetDenyRate, a.emaDenyRate)
    \/ /\ a.hasBaseline
       /\ RLess(RZero, a.baselineLatency)
       /\ RLess(RMul(a.baselineLatency, c.latencyThreshold), a.emaLatency)

\* _shouldIncrease that wants the latency EMA strictly below the baseline
Mut_shouldIncrease_strictLatency(a, c, maxConcurrency) ==
    IF a.effectiveConcurrency >= maxConcurrency
    THEN FALSE
    ELSE /\ RLess(a.emaDenyRate, RMul(c.targetDenyRate, <<1, 2>>))
         /\ \/ ~a.hasBaseline
            \/ a.baselineLatency = RZero
            \/ RLess(a.emaLatency, a.baselineLatency)

AdaptiveController_shouldIncrease(a, c, maxConcurrency) ==
    IF a.effectiveConcurrency >= maxConcurrency
    THEN FALSE
    ELSE /\ RLess(a.emaDenyRate, RMul(c.targetDenyRate, <<1, 2>>))
         /\ \/ ~a.hasBaseline
            \/ a.baselineLatency = RZero
            \/ RLeq(a.emaLatency, RMul(a.baselineLatency, <<11, 10>>))

\* _adjust(): update the EMAs, move the effective concurrency one unit, reset the counters
AdaptiveController_adjust(a, c, maxConcurrency) ==
    LET total == a.intervalAcquires + a.intervalDenials
        a1 == IF total > 0
              THEN [a EXCEPT !.emaDenyRate =
                      RAdd(RMul(c.alpha, Norm(a.intervalDenials, total)),
                           RMul(RSub1(c.alpha), a.emaDenyRate))]
              ELSE a
        n == Len(a.latencySamples)
        avgLatency == Norm(SeqSum(a.latencySamples), Max(1, n))
        a2 == IF n > 0
              THEN [a1 EXCEPT
                      !.emaLatency = RAdd(RMul(c.alpha, avgLatency),
                                          RMul(RSub1(c.alpha), a1.emaLatency)),
                      !.baselineLatency = IF a1.hasBaseline THEN @ ELSE avgLatency,
                      !.hasBaseline = TRUE]
              ELSE a1
        a3 == IF AdaptiveController_shouldReduce(a2, c)
              THEN [a2 EXCEPT !.effectiveConcurrency = Max(c.minConcurrency, @ - 1)]
              ELSE IF AdaptiveController_shouldIncrease(a2, c, maxConcurrency)
                   THEN [a2 EXCEPT !.effectiveConcurrency = Min(maxConcurrency, @ + 1)]
                   ELSE a2
    IN [a3 EXCEPT !.intervalAcquires = 0, !.intervalDenials = 0, !.latencySamples = <<>>]

\* a maybeAdjust that adjusts on every call once it has started
Mut_maybeAdjust_noInterval(a, c, maxConcurrency, t) ==
    IF a.lastAdjust = 0
    THEN [a EXCEPT !.lastAdjust = t]
    ELSE [AdaptiveController_adjust(a, c, maxConcurrency) EXCEPT !.lastAdjust = t]

\* maybeAdjust(now): the adaptive record afterwards; it returns effectiveConcurrency
AdaptiveController_maybeAdjust(a, c, maxConcurrency, t) ==
    IF a.lastAdjust = 0
    THEN [a EXCEPT !.lastAdjust = t]
    ELSE IF t - a.lastAdjust < c.adjustIntervalMs
         THEN a
         ELSE [AdaptiveController_adjust(a, c, maxConcurrency) EXCEPT !.lastAdjust = t]

----------------------------------------------------------------------------
(* Governor *)

\* the requests tried under configuration c: an input that no configured limiter reads
\* takes one value only
Requests(c) ==
    [actorId : IF c.fairness THEN Actors ELSE {"a"},
     priority : IF c.interactiveReserve > 0 THEN Priorities ELSE {"interactive"},
     weight : Weights,
     promptTokens : IF c.tokenRate THEN PromptTokens ELSE {0},
     maxOutputTokens : IF c.tokenRate THEN MaxOutputTokens ELSE {0},
     idempotencyKey : Keys \cup {NoKey}]

\* the release reports tried under configuration c
ReportUsages(c) == IF c.tokenRate THEN Usages ELSE {NoUsage}
ReportLatencies(c) == IF c.adaptive THEN Latencies ELSE {NoLatency}

\* `last`: op is the operation; granted, reason, leaseId, expiresAt are the decision of an
\* acquire (idem: it came from the idempotency index); found: release removed a lease;
\* reaped: the lease ids a sweep handed to _onExpired
NoOp ==
    [op |-> "init", granted |-> FALSE, reason |-> "", leaseId |-> NoLease,
     expiresAt |-> NoTime, retryAfterMs |-> NoRetry, idem |-> FALSE, found |-> FALSE,
     reaped |-> {}, threw |-> ""]

\* _estimateTokens(request)
Governor_estimateTokens(req) == req.promptTokens + req.maxOutputTokens

\* a rollback that gives back one unit whatever the weight
Mut_rollback_unit(inflight, weight) == ConcurrencyPool_release(inflight, 1)

\* _rollbackConcurrency(weight)
Governor_rollbackConcurrency(inflight, weight) == ConcurrencyPool_release(inflight, weight)

\* acquire(request), from the limiter checks on: ad1 is the adaptive record after the
\* tick, idem the idempotency lookup, pool the concurrency pool's answer, fair, rate and
\* tok the answers of fairness and of the two rate pools. The value is the fields of the
\* governor after the call, with the decision in .last
Governor_acquire_decide(req, ad1, idem, pool, fair, rate, tok) ==
    LET weight == req.weight
        estimatedTokens == Governor_estimateTokens(req)
        call == [NoOp EXCEPT !.op = "acquire"]
        earliestExpiryMs == IF LeaseStore_earliestExpiry(leases) # Undefined
                            THEN <<LeaseStore_earliestExpiry(leases)[1] - now>>
                            ELSE Undefined
        s0 == [ad |-> ad1,
               effectiveMax |-> IF cfg.adaptive
                                THEN ConcurrencyPool_setEffectiveMax(cfg.maxInFlight,
                                                                     ad1.effectiveConcurrency)
                                ELSE effectiveMax,
               byIdempotency |-> idem.byIdempotency,
               inFlightWeight |-> inFlightWeight, deniedAt |-> deniedAt,
               actorWeight |-> actorWeight, timestamps |-> timestamps, entries |-> entries,
               lastEntryAt |-> lastEntryAt,
               leases |-> leases, nextId |-> nextId, last |-> call]
    IN
    IF idem.found
    THEN \* the existing lease is handed back
         [s0 EXCEPT !.last = [call EXCEPT !.granted = TRUE, !.idem = TRUE,
                                          !.leaseId = idem.lease.leaseId,
                                          !.expiresAt = idem.lease.expiresAt]]
    ELSE IF ~pool.ok
    THEN \* denied by the concurrency pool
         [s0 EXCEPT
            !.deniedAt = IF cfg.fairness
                         THEN FairnessTracker_recordDenial(deniedAt, req.actorId, now)
                         ELSE @,
            !.ad = IF cfg.adaptive THEN AdaptiveController_recordDenial(ad1) ELSE @,
            !.last = [call EXCEPT !.reason = "concurrency",
                                  !.retryAfterMs = ConcurrencyPool_computeRetry(
                                      s0.effectiveMax, inFlightWeight, earliestExpiryMs)]]
    ELSE IF ~fair.ok
    THEN \* denied by fairness: the reservation is released
         [s0 EXCEPT
            !.inFlightWeight = ConcurrencyPool_release(pool.inFlightWeight, weight),
            !.deniedAt = FairnessTracker_recordDenial(fair.deniedAt, req.actorId, now),
            !.ad = IF cfg.adaptive THEN AdaptiveController_recordDenial(ad1) ELSE @,
            !.last = [call EXCEPT !.reason = "policy",
                                  !.retryAfterMs = clampRetry(IF earliestExpiryMs # Undefined
                                                              THEN earliestExpiryMs[1]
                                                              ELSE 500)]]
    ELSE IF ~rate.ok
    THEN \* denied by the request-rate pool
         [s0 EXCEPT
            !.inFlightWeight = Governor_rollbackConcurrency(pool.inFlightWeight, weight),
            !.deniedAt = fair.deniedAt,
            !.timestamps = rate.timestamps,
            !.last = [call EXCEPT !.reason = "rate",
                                  !.retryAfterMs = RatePool_retryAfterMs(timestamps, now, cfg)]]
    ELSE IF ~tok.ok
    THEN \* denied by the token-rate pool
         [s0 EXCEPT
            !.inFlightWeight = Governor_rollbackConcurrency(pool.inFlightWeight, weight),
            !.deniedAt = fair.deniedAt,
            !.timestamps = rate.timestamps,
            !.entries = tok.entries,
            !.last = [call EXCEPT !.reason = "rate",
                                  !.retryAfterMs = TokenRatePool_retryAfterMs(
                                      entries, estimatedTokens, lastEntryAt, now, cfg)]]
    ELSE \* commit
         LET leaseId == nextId + 1
             lease == [leaseId |-> leaseId, actorId |-> req.actorId, weight |-> weight,
                       idempotencyKey |-> req.idempotencyKey,
                       createdAt |-> now, expiresAt |-> now + cfg.leaseTtlMs]
             store == LeaseStore_add(leases, idem.byIdempotency, lease)
         IN [s0 EXCEPT
               !.inFlightWeight = pool.inFlightWeight,
               !.deniedAt = fair.deniedAt,
               !.timestamps = IF cfg.rate THEN RatePool_record(rate.timestamps, now) ELSE @,
               !.entries = IF cfg.tokenRate
                           THEN TokenRatePool_record(tok.entries, estimatedTokens, leaseId, now)
                           ELSE @,
               !.lastEntryAt = IF cfg.tokenRate THEN now ELSE @,
               !.leases = store.leases,
               !.byIdempotency = store.byIdempotency,
               !.actorWeight = IF cfg.fairness
                               THEN FairnessTracker_recordAcquire(actorWeight, req.actorId, weight)
                               ELSE @,
               !.ad = IF cfg.adaptive THEN AdaptiveController_recordAcquire(ad1) ELSE @,
               !.nextId = leaseId,
               !.last = [call EXCEPT !.granted = TRUE, !.leaseId = leaseId,
                                      !.expiresAt = lease.expiresAt]]

\* acquire(request), the limiters in the order the code asks them: fairness sees the
\* in-flight weight with the reservation already made
Governor_acquire_limiters(req, ad1, idem, pool) ==
    Governor_acquire_decide(req, ad1, idem, pool,
        IF cfg.fairness
        THEN FairnessTracker_check(actorWeight, deniedAt, req.actorId, req.weight,
                                   cfg.maxInFlight, pool.inFlightWeight, now, cfg)
        ELSE [ok |-> TRUE, deniedAt |-> deniedAt],
        IF cfg.rate
        THEN RatePool_tryAcquire(timestamps, now, cfg)
        ELSE [ok |-> TRUE, timestamps |-> timestamps],
        IF cfg.tokenRate
        THEN TokenRatePool_tryAcquire(entries, Governor_estimateTokens(req), now, cfg)
        ELSE [ok |-> TRUE, entries |-> entries])

\* acquire(request), after the adaptive tick: the idempotency lookup and the
\* concurrency pool, asked with the effective maximum the tick has set
Governor_acquire_afterTick(req, ad1) ==
    Governor_acquire_limiters(req, ad1,
        IF req.idempotencyKey # NoKey
        THEN LeaseStore_getByIdempotencyKey(leases, byIdempotency, req.idempotencyKey)
        ELSE [found |-> FALSE, byIdempotency |-> byIdempotency],
        ConcurrencyPool_tryAcquire(
            IF cfg.adaptive
            THEN ConcurrencyPool_setEffectiveMax(cfg.maxInFlight, ad1.effectiveConcurrency)
            ELSE effectiveMax,
            inFlightWeight, cfg.interactiveReserve, req.priority, req.weight))

\* acquire(request): the adaptive tick comes first, before the idempotency lookup
Governor_acquire(req) ==
    Governor_acquire_afterTick(req,
        IF cfg.adaptive
        THEN AdaptiveController_maybeAdjust(ad, cfg.adaptiveConfig, cfg.maxInFlight, now)
        ELSE ad)

\* what calling the user's onEvent handler does
HandlerOutcome(handler) == IF handler = "throws" THEN "exception" ELSE "returned"

\* an _emit without the try/catch
Mut_emit_noCatch(handler) ==
    IF handler = "none" THEN "returned" ELSE HandlerOutcome(handler)

\* _emit(event): how the call ends for the operation that emits
Governor_emit(handler) ==
    IF handler = "none"
    THEN "returned"
    ELSE IF HandlerOutcome(handler) = "exception"
         THEN "returned"      \* catch { } swallows it
         ELSE "returned"

\* an operation whose last statement before returning is _emit(event): the result r
\* as its caller gets it
Governor_afterEmit(r, emits, handler) ==
    IF emits /\ Governor_emit(handler) = "exception"
    THEN [r EXCEPT !.last = [NoOp EXCEPT !.op = r.last.op, !.leaseId = r.last.leaseId,
                                         !.threw = "handler"]]
    ELSE r

\* _emit(event) as the handler sees it: the event reaches onEvent when one is installed
Governor_emitted(log, handler, event) ==
    IF handler = "none" THEN log ELSE Append(log, event)

\* an expiry callback that emits nothing
Mut_expireEvents_silent(log, expired, handler) == log

\* _onExpired(leases): one expire event per lease, in the order of the store (the order
\* in which the leases were added)
RECURSIVE Governor_expireEvents(_, _, _)
Governor_expireEvents(log, expired, handler) ==
    IF expired = {}
    THEN log
    ELSE LET lease == CHOOSE l \in expired : \A m \in expired : l.leaseId <= m.leaseId IN
         Governor_expireEvents(
             Governor_emitted(log, handler, [type |-> "expire", leaseId |-> lease.leaseId]),
             expired \ {lease}, handler)

\* acquire(request): every path but the idempotent hit ends with an _emit; a behaviour
\* issues at most `ids` leases
Governor_acquireStep(req, ids) ==
    \E r0 \in {Governor_acquire(req)} :
    \E r \in {Governor_afterEmit(r0, ~r0.last.idem, cfg.onEvent)} :
    /\ r.nextId <= ids
    /\ r.ad.intervalDenials <= MaxDenials
    /\ ad' = r.ad
    /\ effectiveMax' = r.effectiveMax
    /\ byIdempotency' = r.byIdempotency
    /\ inFlightWeight' = r.inFlightWeight
    /\ deniedAt' = r.deniedAt
    /\ actorWeight' = r.actorWeight
    /\ timestamps' = r.timestamps
    /\ entries' = r.entries
    /\ lastEntryAt' = r.lastEntryAt
    /\ leases' = r.leases
    /\ nextId' = r.nextId
    /\ last' = r.last
    /\ events' = IF r0.last.granted /\ ~r0.last.idem
                 THEN Governor_emitted(events, cfg.onEvent,
                                       [type |-> "acquire", leaseId |-> r0.last.leaseId])
                 ELSE events
    /\ grantLog' = IF cfg.rate /\ r0.last.granted /\ ~r0.last.idem
                   THEN Append(grantLog, now)
                   ELSE grantLog
    /\ UNCHANGED <<cfg, now, reaperOn, releasedIds, releaseLog>>

AcquireUpTo(req, ids) == Governor_acquireStep(req, ids) /\ UNCHANGED wl

Acquire(req) == AcquireUpTo(req, MaxIds)

\* does the sequence hold the id?
InSeq(ids, id) == \E i \in 1..Len(ids) : ids[i] = id

\* a released-ids cache that drops the newest id when it is full
Mut_trackReleased_dropsNewest(ids, id) ==
    IF Len(ids) + 1 > RELEASED_CACHE_SIZE THEN ids ELSE Append(ids, id)

\* release(), strict mode: _releasedIds.add(leaseId), then the oldest id leaves when the
\* set has grown past _RELEASED_CACHE_SIZE
Governor_trackReleased(ids, id) ==
    LET added == IF InSeq(ids, id) THEN ids ELSE Append(ids, id) IN
    IF Len(added) > RELEASED_CACHE_SIZE THEN Tail(added) ELSE added

\* release(leaseId, report), up to its events
Governor_release(leaseId, usage, latencyMs) ==
    LET rem == LeaseStore_remove(leases, byIdempotency, leaseId)
        call == [NoOp EXCEPT !.op = "release", !.leaseId = leaseId]
        s0 == [leases |-> leases, byIdempotency |-> byIdempotency,
               inFlightWeight |-> inFlightWeight, actorWeight |-> actorWeight,
               entries |-> entries, ad |-> ad, releasedIds |-> releasedIds,
               last |-> call]
    IN
    IF cfg.strict /\ InSeq(releasedIds, leaseId)
    THEN [s0 EXCEPT !.last.threw = "DoubleRelease"]
    ELSE IF ~rem.found
    THEN IF cfg.strict THEN [s0 EXCEPT !.last.threw = "UnknownLease"] ELSE s0
    ELSE LET lease == rem.lease
             actualTokens == usage.promptTokens + usage.outputTokens
         IN [s0 EXCEPT
               !.leases = rem.leases,
               !.byIdempotency = rem.byIdempotency,
               !.releasedIds = IF cfg.strict
                               THEN Governor_trackReleased(releasedIds, leaseId)
                               ELSE @,
               !.inFlightWeight = ConcurrencyPool_release(inFlightWeight, lease.weight),
               !.actorWeight = IF cfg.fairness
                               THEN FairnessTracker_recordRelease(actorWeight, lease.actorId,
                                                                  lease.weight)
                               ELSE @,
               !.entries = IF cfg.tokenRate /\ usage # NoUsage /\ actualTokens > 0
                           THEN TokenRatePool_updateActual(entries, leaseId, actualTokens)
                           ELSE @,
               !.ad = IF cfg.adaptive /\ latencyMs # NoLatency
                      THEN AdaptiveController_recordLatency(ad, latencyMs)
                      ELSE @,
               !.last = [call EXCEPT !.found = TRUE]]

\* release(leaseId, report): a release that found its lease ends with _emit
Governor_releaseStep(leaseId, usage, latencyMs) ==
    \E r0 \in {Governor_release(leaseId, usage, latencyMs)} :
    \E r \in {Governor_afterEmit(r0, r0.last.found, cfg.onEvent)} :
    /\ leases' = r.leases
    /\ byIdempotency' = r.byIdempotency
    /\ inFlightWeight' = r.inFlightWeight
    /\ actorWeight' = r.actorWeight
    /\ entries' = r.entries
    /\ ad' = r.ad
    /\ releasedIds' = r.releasedIds
    /\ releaseLog' = IF cfg.strict /\ r0.last.found THEN Append(releaseLog, leaseId) ELSE releaseLog
    /\ last' = r.last
    /\ events' = IF r0.last.found
                 THEN Governor_emitted(events, cfg.onEvent,
                                       [type |-> "release", leaseId |-> leaseId])
                 ELSE events
    /\ UNCHANGED <<cfg, now, reaperOn, effectiveMax, timestamps, lastEntryAt, deniedAt,
                   nextId, grantLog>>

Release(leaseId, usage, latencyMs) ==
    Governor_releaseStep(leaseId, usage, latencyMs) /\ UNCHANGED wl

\* an expiry callback that forgets the concurrency pool
Mut_onExpired_keepsWeight(inflight, aw, expired, handler) ==
    [inFlightWeight |-> inflight,
     actorWeight |-> [a \in DOMAIN aw |->
                        Max(0, aw[a] - SumWeights({l \in expired : l.actorId = a}))],
     threw |-> ""]

\* _onExpired(leases): each expired lease gives its weight back, in store order
\* an exception that leaves _emit ends the loop where it stands
RECURSIVE Governor_onExpired(_, _, _, _)
Governor_onExpired(inflight, aw, expired, handler) ==
    IF expired = {}
    THEN [inFlightWeight |-> inflight, actorWeight |-> aw, threw |-> ""]
    ELSE LET lease == CHOOSE l \in expired : \A m \in expired : l.leaseId <= m.leaseId
             inflight1 == ConcurrencyPool_release(inflight, lease.weight)
             aw1 == IF cfg.fairness
                    THEN FairnessTracker_recordRelease(aw, lease.actorId, lease.weight)
                    ELSE aw
         IN IF Governor_emit(handler) = "exception"
            THEN [inFlightWeight |-> inflight1, actorWeight |-> aw1, threw |-> "handler"]
            ELSE Governor_onExpired(inflight1, aw1, expired \ {lease}, handler)

\* the reaper timer fires: LeaseStore._sweep() and the Governor's callback
Sweep ==
    /\ reaperOn
    /\ LET sw == LeaseStore_sweep(leases, byIdempotency, now)
           r == Governor_onExpired(inFlightWeight, actorWeight, sw.expired, cfg.onEvent)
       IN /\ leases' = sw.leases
          /\ byIdempotency' = sw.byIdempotency
          /\ inFlightWeight' = r.inFlightWeight
          /\ actorWeight' = r.actorWeight
          /\ last' = [NoOp EXCEPT !.op = "sweep",
                                  !.reaped = {l.leaseId : l \in sw.expired},
                                  !.threw = r.threw]
          /\ events' = Governor_expireEvents(events, sw.expired, cfg.onEvent)
    /\ UNCHANGED <<cfg, now, reaperOn, effectiveMax, timestamps, entries, lastEntryAt,
                   deniedAt, ad, releasedIds, releaseLog, nextId, grantLog, wl>>

\* a stopReaper that starts the timer again when it finds it stopped
Mut_stopReaper_toggle(timer) == ~timer

\* stopReaper(): clear the interval if one is set; _reaperTimer is null afterwards
LeaseStore_stopReaper(timer) == FALSE

\* dispose(): LeaseStore.stopReaper()
Dispose ==
    /\ reaperOn' = LeaseStore_stopReaper(reaperOn)
    /\ last' = [NoOp EXCEPT !.op = "dispose"]
    /\ UNCHANGED <<cfg, now, leases, byIdempotency, inFlightWeight, effectiveMax,
                   timestamps, entries, lastEntryAt, actorWeight, deniedAt, ad,
                   releasedIds, releaseLog, nextId, events, grantLog, wl>>

\* the injected clock advances
Tick ==
    /\ now < MaxTime
    /\ now' = now + 1
    /\ last' = [NoOp EXCEPT !.op = "tick"]
    /\ UNCHANGED <<cfg, leases, byIdempotency, reaperOn, inFlightWeight, effectiveMax,
                   timestamps, entries, lastEntryAt, actorWeight, deniedAt, ad,
                   releasedIds, releaseLog, nextId, events, grantLog, wl>>

----------------------------------------------------------------------------
(* withLease *)

\* the concurrent withLease calls on one governor
Procs == {"p1", "p2"}

\* a call that has not been made yet
WLIdle ==
    [pc |-> "idle", weight |-> 0, idempotencyKey |-> NoKey, strategy |-> "deny",
     maxWaitMs |-> 0, maxAttempts |-> 0, elapsed |-> 0, attempts |-> 0, backoff |-> 0,
     wakeAt |-> NoTime, deniedAt |-> NoTime, retryAfterMs |-> NoRetry, reason |-> "",
     leaseId |-> NoLease, expiresAt |-> NoTime, fn |-> "", releases |-> 0, result |-> ""]

\* shouldRetry
withLease_shouldRetry(strategy, elapsed, attempts, maxWaitMs, maxAttempts) ==
    IF strategy = "wait"
    THEN elapsed < maxWaitMs
    ELSE IF strategy = "wait-then-deny"
         THEN attempts < maxAttempts /\ elapsed < maxWaitMs
         ELSE FALSE

\* waitTime = Math.min(backoff, decision.retryAfterMs, maxWaitMs - elapsed)
withLease_waitTime(backoff, retryAfterMs, maxWaitMs, elapsed) ==
    Min(backoff, Min(retryAfterMs, maxWaitMs - elapsed))

\* the call after governor.acquire(request) returned decision d at reading t: fn starts
\* on a grant; on a denial the call returns it or goes to sleep (a timer set with a
\* negative delay fires at once)
withLease_decided(w, d, t) ==
    IF d.granted
    THEN [w EXCEPT !.pc = "running", !.attempts = @ + 1, !.leaseId = d.leaseId,
                   !.expiresAt = d.expiresAt]
    ELSE IF ~withLease_shouldRetry(w.strategy, w.elapsed, w.attempts + 1, w.maxWaitMs,
                                   w.maxAttempts)
    THEN [w EXCEPT !.pc = "done", !.attempts = @ + 1, !.result = "denied",
                   !.reason = d.reason, !.retryAfterMs = d.retryAfterMs, !.deniedAt = t]
    ELSE [w EXCEPT !.pc = "sleeping", !.attempts = @ + 1,
                   !.reason = d.reason, !.retryAfterMs = d.retryAfterMs, !.deniedAt = t,
                   !.wakeAt = t + Max(0, withLease_waitTime(w.backoff, d.retryAfterMs,
                                                            w.maxWaitMs, w.elapsed)),
                   !.elapsed = @ + withLease_waitTime(w.backoff, d.retryAfterMs,
                                                      w.maxWaitMs, w.elapsed),
                   !.backoff = Min(@ * 2, 5000)]

\* the call after fn settled and release ran: release(success) sits inside the try, so
\* when it throws the catch block calls release(error), which throws again and rejects
\* the call; threw is how governor.release ended
withLease_settled(w, fn, threw) ==
    IF threw = ""
    THEN [w EXCEPT !.pc = "done", !.fn = fn, !.releases = 1,
                   !.result = IF fn = "returned" THEN "granted" ELSE "fnError"]
    ELSE [w EXCEPT !.pc = "done", !.fn = fn,
                   !.releases = IF fn = "returned" THEN 2 ELSE 1,
                   !.result = "releaseError"]

\* the request of a call
WLRequest(w) ==
    [actorId |-> "a", priority |-> "interactive", weight |-> w.weight, promptTokens |-> 0,
     maxOutputTokens |-> 0, idempotencyKey |-> w.idempotencyKey]

\* the retry loop runs at most this many times in one behaviour
WLMaxAttempts == 4

\* withLease(governor, request, fn, options) up to its first await: options resolved,
\* first acquire made
WL_call(p, weight, key, strategy, maxWaitMs, initialBackoffMs) ==
    /\ wl[p].pc = "idle"
    /\ \E w0 \in {[WLIdle EXCEPT !.weight = weight, !.idempotencyKey = key,
                                  !.strategy = strategy, !.maxWaitMs = maxWaitMs,
                                  !.maxAttempts = 2, !.backoff = initialBackoffMs]} :
          /\ Governor_acquireStep(WLRequest(w0), MaxIds)
          /\ wl' = [wl EXCEPT ![p] = withLease_decided(w0, last', now)]

\* the sleep is over (timers fire at their time or later): the next round of the loop
WL_wake(p) ==
    /\ wl[p].pc = "sleeping"
    /\ now >= wl[p].wakeAt
    /\ wl[p].attempts < WLMaxAttempts
    /\ Governor_acquireStep(WLRequest(wl[p]), MaxIds)
    /\ wl' = [wl EXCEPT ![p] = withLease_decided(wl[p], last', now)]

\* fn settles and the call releases its lease
WL_settle(p, fn) ==
    /\ wl[p].pc = "running"
    /\ Governor_releaseStep(wl[p].leaseId, NoUsage, NoLatency)
    /\ wl' = [wl EXCEPT ![p] = withLease_settled(wl[p], fn, last'.threw)]

\* the state after `new Governor(c)`
Governor_new(c) ==
    /\ cfg = c
    /\ now = 0
    /\ leases = {}
    /\ byIdempotency = [k \in Keys |-> NoLease]
    /\ reaperOn = TRUE
    /\ inFlightWeight = 0
    /\ effectiveMax = c.maxInFlight
    /\ timestamps = <<>>
    /\ entries = <<>>
    /\ lastEntryAt = NoTime
    /\ releasedIds = <<>>
    /\ releaseLog = <<>>
    /\ actorWeight = [a \in Actors |-> 0]
    /\ deniedAt = [a \in Actors |-> NoTime]
    /\ ad = AdaptiveInit(c.maxInFlight)
    /\ nextId = 0
    /\ events = <<>>
    /\ grantLog = <<>>
    /\ wl = [p \in Procs |-> WLIdle]
    /\ last = NoOp

Init == \E c \in Configs : Governor_new(c)

Next ==
    \/ \E req \in Requests(cfg) : Acquire(req)
    \/ \E id \in 1..MaxIds, usage \in ReportUsages(cfg), latencyMs \in ReportLatencies(cfg) :
          Release(id, usage, latencyMs)
    \/ Sweep
    \/ Dispose
    \/ Tick

Spec == Init /\ [][Next]_vars

----------------------------------------------------------------------------
(* What a caller can observe *)

\* Governor.rateCount and Governor.tokenRateCount: the getters prune before counting
RateCount == RatePool_currentCount(timestamps, now, cfg)
TokenRateCount == TokenRatePool_currentTokens(entries, now, cfg)

DeniedAcquire == last.op = "acquire" /\ ~last.granted
FreshGrant == last.op = "acquire" /\ last.granted /\ ~last.idem

----------------------------------------------------------------------------
(* C1..C10 *)

\* C1: after any sequence of acquire, release and sweep the weights of the leases in the
\* store sum to the concurrency pool's in-flight weight.
ThmC1 == SumWeights(leases) = inFlightWeight

\* C1 witness: a release removed one lease while another one is still held.
WitC1 == last.op = "release" /\ last.found /\ leases # {} /\ inFlightWeight > 0

\* C2: the total weight of the active leases never exceeds max_in_flight; with unit
\* weights there are never max_in_flight + 1 leases.
ThmC2 ==
    /\ SumWeights(leases) <= cfg.maxInFlight
    /\ (\A l \in leases : l.weight = 1) => Cardinality(leases) < cfg.maxInFlight + 1

\* C2 witness: the pool is full and a further acquire was denied for concurrency.
WitC2 ==
    /\ DeniedAcquire /\ last.reason = "concurrency"
    /\ SumWeights(leases) = cfg.maxInFlight

\* C3 as stated: in_flight_weight <= effective_max <= max_weight at all times.
OrigC3 == inFlightWeight <= effectiveMax /\ effectiveMax <= cfg.maxInFlight

\* C3 amended: in_flight_weight <= max_weight and 1 <= effective_max <= max_weight at all
\* times, and in_flight_weight <= effective_max right after every newly granted lease; an
\* adaptive tick may lower effective_max below the weight already in flight.
ThmC3 ==
    /\ inFlightWeight <= cfg.maxInFlight
    /\ 1 <= effectiveMax /\ effectiveMax <= cfg.maxInFlight
    /\ FreshGrant => inFlightWeight <= effectiveMax

\* C3 witness: an acquire ran the adaptive tick, which lowered effective_max below the
\* weight in flight.
WitC3 == last.op = "acquire" /\ cfg.adaptive /\ inFlightWeight > effectiveMax

\* C4 as stated: a denied acquire leaves in_flight_weight, effective_max, the request-rate
\* count, the token-rate sum and the fairness tracker's state unchanged.
OrigC4 ==
    [][DeniedAcquire' =>
          /\ inFlightWeight' = inFlightWeight
          /\ effectiveMax' = effectiveMax
          /\ RateCount' = RateCount
          /\ TokenRateCount' = TokenRateCount
          /\ actorWeight' = actorWeight
          /\ deniedAt' = deniedAt]_vars

\* C4 amended: a denied acquire leaves in_flight_weight, the request-rate count, the
\* token-rate sum and every actor's fairness weight unchanged; effective_max changes only
\* by the adaptive tick at the start of the call (at most one unit), and of the fairness
\* tracker's denial timestamps only the requesting actor's may change.
ThmC4 ==
    [][DeniedAcquire' =>
          /\ inFlightWeight' = inFlightWeight
          /\ RateCount' = RateCount
          /\ TokenRateCount' = TokenRateCount
          /\ actorWeight' = actorWeight
          /\ effectiveMax' \in {effectiveMax - 1, effectiveMax, effectiveMax + 1}
          /\ (~cfg.adaptive => effectiveMax' = effectiveMax)
          /\ Cardinality({a \in Actors : deniedAt'[a] # deniedAt[a]}) <= 1]_vars

\* C4 witness: an acquire was denied by a rate limiter while leases are held and the
\* request-rate window is not empty.
WitC4 == DeniedAcquire /\ last.reason = "rate" /\ inFlightWeight > 0 /\ RateCount > 0

\* C5: a denial by fairness, request rate or token rate leaves in_flight_weight as it was
\* before the call, whatever the request's weight.
ThmC5 ==
    [][(DeniedAcquire' /\ last'.reason \in {"policy", "rate"}) =>
          inFlightWeight' = inFlightWeight]_vars

\* C5 witness: fairness denied a request while weight is in flight.
WitC5 == DeniedAcquire /\ last.reason = "policy" /\ inFlightWeight > 0

\* the admission rule of C6 for a request, on the pool as the call finds it
AdmitC6(req, eff, inflight) ==
    /\ eff - inflight >= req.weight
    /\ req.priority = "background" => eff - inflight - req.weight >= cfg.interactiveReserve

\* C6: in every reachable state and for every request that is not answered from the
\* idempotency index, acquire is denied for concurrency iff the admission rule fails, the
\* rule being effective_max - in_flight_weight >= w and, for background, effective_max -
\* in_flight_weight - w >= interactive_reserve; a grant leaves in_flight_weight exactly w
\* higher, a denial leaves it as it was.
ThmC6 ==
    \A req \in Requests(cfg) : \A r \in {Governor_acquire(req)} :
        ~r.last.idem =>
            /\ (r.last.reason = "concurrency") <=> ~AdmitC6(req, r.effectiveMax, inFlightWeight)
            /\ r.last.granted => r.inFlightWeight = inFlightWeight + req.weight
            /\ ~r.last.granted => r.inFlightWeight = inFlightWeight

\* C6 witness: a request was denied for concurrency although capacity was left (its
\* weight did not fit, or it was a background request reaching into the reserve).
WitC6 == DeniedAcquire /\ last.reason = "concurrency" /\ effectiveMax - inFlightWeight >= 1

----------------------------------------------------------------------------
(* Expiry: the clock keeps advancing and the reaper timer keeps firing while it is set *)

\* newly granted leases expire within the clock's range
LiveAcquire(req) == Acquire(req) /\ (FreshGrant' => last'.expiresAt <= MaxTime)

LiveInit == Init /\ cfg.fairness

LiveNext ==
    \/ \E req \in Requests(cfg) : LiveAcquire(req)
    \/ \E id \in 1..MaxIds, usage \in ReportUsages(cfg), latencyMs \in ReportLatencies(cfg) :
          Release(id, usage, latencyMs)
    \/ Sweep
    \/ Dispose
    \/ Tick

LiveSpec == LiveInit /\ [][LiveNext]_vars /\ WF_vars(Tick) /\ WF_vars(Sweep)

RECURSIVE SumActorWeight(_)
SumActorWeight(A) ==
    IF A = {} THEN 0
    ELSE LET a == CHOOSE x \in A : TRUE IN actorWeight[a] + SumActorWeight(A \ {a})

\* lease id is gone and no weight is held for it in the pool or the fairness tracker
Returned(id) ==
    /\ ~HasLease(leases, id)
    /\ inFlightWeight = SumWeights(leases)
    /\ cfg.fairness => SumActorWeight(Actors) = SumWeights(leases)

\* C7 as stated: every granted lease that is never released is eventually removed from
\* the store and its weight returned to the concurrency pool and the fairness tracker.
OrigC7 == \A id \in 1..MaxIds : HasLease(leases, id) ~> Returned(id)

\* C7 amended: as long as the governor is not disposed, every granted lease that is never
\* released is eventually removed from the store and its weight returned to the
\* concurrency pool and the fairness tracker; after dispose nothing expires any more.
ThmC7 == \A id \in 1..MaxIds : HasLease(leases, id) ~> (Returned(id) \/ ~reaperOn)

\* C7 witness: the reaper removed an expired lease and the pool is empty again.
WitC7 == last.op = "sweep" /\ last.reaped # {} /\ leases = {} /\ inFlightWeight = 0

\* C8 as stated: a lease stays in the store at every time before its expires_at unless
\* released, and from expires_at onward it is no longer in the store.
OrigC8 ==
    /\ [][last'.op # "release" =>
            \A l \in leases : now' < l.expiresAt => l \in leases']_vars
    /\ [](\A l \in leases : now < l.expiresAt)

\* C8 amended: a lease that is not released stays in the store, its weight counted in
\* in_flight_weight, until the first reaper sweep that runs at or after its expires_at;
\* that sweep removes exactly the leases with expires_at <= now and gives their weight
\* back.  Between expires_at and that sweep the lease is still counted.
ThmC8 ==
    [][/\ last'.op # "release" =>
            \A l \in leases : (now' < l.expiresAt \/ last'.op # "sweep") => l \in leases'
       /\ last'.op = "sweep" =>
            /\ leases' = {l \in leases : now < l.expiresAt}
            /\ inFlightWeight' = inFlightWeight - SumWeights(leases \ leases')
            /\ inFlightWeight' = SumWeights(leases')]_vars

\* C8 witness: a sweep reaped an expired lease and kept one that has not expired.
WitC8 == last.op = "sweep" /\ last.reaped # {} /\ leases # {}

\* C9: an acquire carrying the idempotency key of a live lease returns that lease's id and
\* charges nothing; one release of that id frees the lease's weight, a second frees nothing.
ThmC9 ==
    [][/\ last'.op = "acquire" => \A req \in Requests(cfg) : \A l \in leases :
            (/\ req.idempotencyKey # NoKey
             /\ l.idempotencyKey = req.idempotencyKey
             /\ now < l.expiresAt
             /\ Acquire(req))
            => /\ last'.granted
               /\ last'.leaseId = l.leaseId
               /\ last'.expiresAt = l.expiresAt
               /\ inFlightWeight' = inFlightWeight
               /\ leases' = leases
       /\ \A id \in 1..MaxIds :
            (last'.op = "release" /\ last'.leaseId = id) =>
                IF HasLease(leases, id)
                THEN /\ inFlightWeight' = inFlightWeight - LeaseOf(leases, id).weight
                     /\ ~HasLease(leases', id)
                ELSE inFlightWeight' = inFlightWeight /\ leases' = leases]_vars

\* C9 witness: an acquire was answered from the idempotency index with a live lease.
WitC9 == last.op = "acquire" /\ last.granted /\ last.idem /\ now < last.expiresAt

\* C10: a granted decision never hands back a lease whose expires_at has already passed.
OrigC10 == (last.op = "acquire" /\ last.granted) => now < last.expiresAt

\* release() has just removed lease id from the store
ReleasedNow(id) == last.op = "release" /\ last.found /\ last.leaseId = id

\* acquire has just returned lease id, as a fresh grant or from the idempotency index
ReturnedNow(id) == last.op = "acquire" /\ last.granted /\ last.leaseId = id

\* C11: once a lease_id has been released, no later acquire (fresh grant or
\* idempotency-key hit) returns that lease_id again.
ThmC11 == \A id \in 1..MaxIds : [](ReleasedNow(id) => [](~ReturnedNow(id)))

\* C11 witness: an earlier lease has left the store, and a later acquire that carries an
\* idempotency key was granted a new lease under that key.
WitC11 ==
    /\ last.op = "acquire" /\ last.granted /\ ~last.idem
    /\ last.leaseId > 1
    /\ \E k \in Keys : byIdempotency[k] = last.leaseId
    /\ \E id \in 1..MaxIds : id < last.leaseId /\ ~HasLease(leases, id)

----------------------------------------------------------------------------
(* Retry hints: configurations in milliseconds, long enough for both ends of the clamp *)

RetryConfigs == {
    \* one slot, leases of 6 s
    [maxInFlight |-> 1, interactiveReserve |-> 0, leaseTtlMs |-> 6000,
     rate |-> FALSE, requestsPerMinute |-> 0, tokenRate |-> FALSE, tokensPerMinute |-> 0,
     windowMs |-> 6000, fairness |-> FALSE, softCapRatio |-> <<3, 5>>,
     starvationWindowMs |-> 5000, adaptive |-> FALSE, adaptiveConfig |-> DefaultAdaptive,
     strict |-> FALSE, onEvent |-> "none"],
    \* fairness and one request per 6 s window
    [maxInFlight |-> 2, interactiveReserve |-> 0, leaseTtlMs |-> 6000,
     rate |-> TRUE, requestsPerMinute |-> 1, tokenRate |-> FALSE, tokensPerMinute |-> 0,
     windowMs |-> 6000, fairness |-> TRUE, softCapRatio |-> <<1, 2>>,
     starvationWindowMs |-> 5, adaptive |-> FALSE, adaptiveConfig |-> DefaultAdaptive,
     strict |-> FALSE, onEvent |-> "none"],
    \* one token per 6 s window, leases of 3 s
    [maxInFlight |-> 2, interactiveReserve |-> 0, leaseTtlMs |-> 3000,
     rate |-> FALSE, requestsPerMinute |-> 0, tokenRate |-> TRUE, tokensPerMinute |-> 1,
     windowMs |-> 6000, fairness |-> FALSE, softCapRatio |-> <<3, 5>>,
     starvationWindowMs |-> 5000, adaptive |-> FALSE, adaptiveConfig |-> DefaultAdaptive,
     strict |-> FALSE, onEvent |-> "none"]
}

\* the readings the test clock is set to
RetryTimes == {0, 2990, 3000, 5990, 6000, 6010}

\* setNow(() => t): the injected clock jumps forward to t
SetNow(t) ==
    /\ t > now
    /\ now' = t
    /\ last' = [NoOp EXCEPT !.op = "setNow"]
    /\ UNCHANGED <<cfg, leases, byIdempotency, reaperOn, inFlightWeight, effectiveMax,
                   timestamps, entries, lastEntryAt, actorWeight, deniedAt, ad,
                   releasedIds, releaseLog, nextId, events, grantLog, wl>>

RetryInit == \E c \in RetryConfigs : Governor_new(c)

RetryNext ==
    \/ \E req \in Requests(cfg) : Acquire(req)
    \/ \E id \in 1..MaxIds : Release(id, NoUsage, NoLatency)
    \/ Sweep
    \/ \E t \in RetryTimes : SetNow(t)

RetrySpec == RetryInit /\ [][RetryNext]_vars

\* C12: every denied decision of acquire, whichever limiter produced it, carries
\* retry_after_ms within [25, 5000].
ThmC12 ==
    DeniedAcquire =>
        /\ last.retryAfterMs >= RETRY_MIN_MS
        /\ last.retryAfterMs <= RETRY_MAX_MS

\* C12 witness: a denial whose raw hint was above 5000 ms and came back as 5000.
WitC12 == DeniedAcquire /\ last.retryAfterMs = RETRY_MAX_MS

\* C13: with fairness enabled, each actor's actor_weight equals the sum of the weights of
\* that actor's leases in the store, so the sum over the actors is the weight of all
\* stored leases.
ThmC13 ==
    cfg.fairness =>
        /\ \A a \in Actors : actorWeight[a] = SumWeights({l \in leases : l.actorId = a})
        /\ SumActorWeight(Actors) = SumWeights(leases)

\* C13 witness: with fairness on, a lease was released while weight is still held.
WitC13 ==
    /\ cfg.fairness
    /\ last.op = "release" /\ last.found
    /\ \E a \in Actors : actorWeight[a] > 0

-----------------------------------------------------------------------------
\* Governors with an onEvent handler installed, one of them in strict mode

EventConfigs == {
    \* fairness and request rate, a handler that throws on every event
    [maxInFlight |-> 2, interactiveReserve |-> 0, leaseTtlMs |-> 1,
     rate |-> TRUE, requestsPerMinute |-> 2, tokenRate |-> FALSE, tokensPerMinute |-> 0,
     windowMs |-> 2, fairness |-> TRUE, softCapRatio |-> <<1, 2>>, starvationWindowMs |-> 2,
     adaptive |-> FALSE, adaptiveConfig |-> DefaultAdaptive,
     strict |-> FALSE, onEvent |-> "throws"],
    \* strict mode, a handler that throws on every event
    [maxInFlight |-> 2, interactiveReserve |-> 0, leaseTtlMs |-> 1,
     rate |-> FALSE, requestsPerMinute |-> 0, tokenRate |-> FALSE, tokensPerMinute |-> 0,
     windowMs |-> 2, fairness |-> FALSE, softCapRatio |-> <<3, 5>>, starvationWindowMs |-> 2,
     adaptive |-> FALSE, adaptiveConfig |-> DefaultAdaptive,
     strict |-> TRUE, onEvent |-> "throws"],
    \* strict mode, no handler
    [maxInFlight |-> 2, interactiveReserve |-> 0, leaseTtlMs |-> 1,
     rate |-> FALSE, requestsPerMinute |-> 0, tokenRate |-> FALSE, tokensPerMinute |-> 0,
     windowMs |-> 2, fairness |-> FALSE, softCapRatio |-> <<3, 5>>, starvationWindowMs |-> 2,
     adaptive |-> FALSE, adaptiveConfig |-> DefaultAdaptive,
     strict |-> TRUE, onEvent |-> "none"]
}

EventInit == \E c \in EventConfigs : Governor_new(c)

EventNext ==
    \/ \E req \in Requests(cfg) : Acquire(req)
    \/ \E id \in 1..MaxIds : Release(id, NoUsage, NoLatency)
    \/ Sweep
    \/ Tick

EventSpec == EventInit /\ [][EventNext]_vars

\* C14: when the onEvent handler throws during an acquire, a release or a reaper
\* sweep, no exception reaches the caller, and the operation returns and leaves the
\* governor exactly as it does under a handler that returns normally.
ThmC14 ==
    /\ last.threw # "handler"
    /\ \A req \in Requests(cfg) : \A r \in {Governor_acquire(req)} :
          /\ Governor_afterEmit(r, ~r.last.idem, "throws")
                = Governor_afterEmit(r, ~r.last.idem, "returns")
          /\ Governor_afterEmit(r, ~r.last.idem, "throws").last.threw # "handler"
    /\ \A id \in 1..MaxIds : \A r \in {Governor_release(id, NoUsage, NoLatency)} :
          /\ Governor_afterEmit(r, r.last.found, "throws")
                = Governor_afterEmit(r, r.last.found, "returns")
          /\ Governor_afterEmit(r, r.last.found, "throws").last.threw # "handler"
    /\ \A sw \in {LeaseStore_sweep(leases, byIdempotency, now)} :
          /\ Governor_onExpired(inFlightWeight, actorWeight, sw.expired, "throws")
                = Governor_onExpired(inFlightWeight, actorWeight, sw.expired, "returns")
          /\ Governor_onExpired(inFlightWeight, actorWeight, sw.expired, "throws").threw = ""

\* a sweep under a throwing handler has reaped two leases at once and given both weights back
WitC14 ==
    /\ cfg.onEvent = "throws"
    /\ last.op = "sweep"
    /\ Cardinality(last.reaped) = 2
    /\ inFlightWeight = 0

-----------------------------------------------------------------------------
\* C15: in non-strict mode a release of an id the store does not hold (released
\* before, never issued, or reaped) does not throw, changes no pool counter and no
\* stored lease, and leaves the in-flight weight no lower than the weight of the
\* leases still held.
ThmC15 ==
    [][\A id \in 1..MaxIds :
          (/\ ~cfg.strict
           /\ ~HasLease(leases, id)
           /\ last'.op = "release"
           /\ last'.leaseId = id)
          => /\ last'.threw = ""
             /\ ~last'.found
             /\ UNCHANGED <<leases, byIdempotency, inFlightWeight, effectiveMax, timestamps,
                            entries, lastEntryAt, actorWeight, deniedAt, ad, releasedIds>>
             /\ inFlightWeight' >= SumWeights(leases')]_vars

\* a second release of an issued id, before any lease could expire, while another
\* lease is still held
WitC15 ==
    /\ ~cfg.strict
    /\ last.op = "release"
    /\ ~last.found
    /\ last.leaseId <= nextId
    /\ now < cfg.leaseTtlMs
    /\ leases # {}

-----------------------------------------------------------------------------
\* the id is among the RELEASED_CACHE_SIZE ids released last
RecentlyReleased(id) ==
    \E i \in 1..Len(releaseLog) :
        i > Len(releaseLog) - RELEASED_CACHE_SIZE /\ releaseLog[i] = id

\* C16 as amended: in strict mode, releasing an id that is among the
\* RELEASED_CACHE_SIZE most recently released ids throws DoubleRelease; releasing any
\* other id the store does not hold (never issued, reaped, or released longer ago)
\* throws UnknownLease; releasing a held lease throws nothing.
ThmC16 ==
    [][\A id \in 1..MaxIds :
          (cfg.strict /\ last'.op = "release" /\ last'.leaseId = id)
          => /\ RecentlyReleased(id) => last'.threw = "DoubleRelease"
             /\ (~RecentlyReleased(id) /\ ~HasLease(leases, id))
                   => last'.threw = "UnknownLease"
             /\ HasLease(leases, id) => last'.threw = ""]_vars

\* a strict release has thrown UnknownLease for an id that was released earlier and has
\* left the cache since
WitC16 ==
    /\ cfg.strict
    /\ last.op = "release"
    /\ last.threw = "UnknownLease"
    /\ InSeq(releaseLog, last.leaseId)

\* C16 as stated: in strict mode, releasing an id that has already been released
\* throws DoubleRelease, and releasing an id never issued or already reaped throws
\* UnknownLease.
OrigC16 ==
    [][\A id \in 1..MaxIds :
          (cfg.strict /\ last'.op = "release" /\ last'.leaseId = id)
          => /\ InSeq(releaseLog, id) => last'.threw = "DoubleRelease"
             /\ (~InSeq(releaseLog, id) /\ ~HasLease(leases, id))
                   => last'.threw = "UnknownLease"]_vars

-----------------------------------------------------------------------------
\* an acquire that finds the available capacity equal to the interactive reserve (the
\* adaptive tick of the same call included) and is not answered from the idempotency index
AtReserve(r) == ~r.last.idem /\ r.effectiveMax - inFlightWeight = cfg.interactiveReserve

\* C17 as amended: when the available capacity equals the interactive reserve, a
\* background acquire is denied with reason concurrency, and an interactive acquire is
\* denied for concurrency exactly when its weight exceeds the available capacity; with
\* no other limiter configured an interactive acquire that fits is granted.
ThmC17 ==
    \A req \in Requests(cfg) : \A r \in {Governor_acquire(req)} :
        AtReserve(r) =>
            /\ req.priority = "background"
                  => ~r.last.granted /\ r.last.reason = "concurrency"
            /\ req.priority = "interactive"
                  => /\ (r.last.reason = "concurrency") <=> (req.weight > cfg.interactiveReserve)
                     /\ (/\ req.weight <= cfg.interactiveReserve
                         /\ ~cfg.fairness /\ ~cfg.rate /\ ~cfg.tokenRate) => r.last.granted

\* a weight-1 grant has just taken the last unit of a non-empty reserve: only an
\* interactive request can, and it found exactly the reserve available
WitC17 ==
    /\ FreshGrant
    /\ cfg.interactiveReserve > 0
    /\ LeaseOf(leases, last.leaseId).weight = 1
    /\ effectiveMax - inFlightWeight = cfg.interactiveReserve - 1

\* C17 as stated: whenever the available capacity equals the interactive reserve, a
\* background acquire is denied and an interactive acquire is admitted.
OrigC17 ==
    \A req \in Requests(cfg) : \A r \in {Governor_acquire(req)} :
        AtReserve(r) =>
            /\ req.priority = "background" => ~r.last.granted
            /\ req.priority = "interactive" => r.last.granted

-----------------------------------------------------------------------------
\* the request-rate pool recorded exactly its cap of requests at time t, and nothing else
\* is left in its window
FullAt(t) ==
    /\ cfg.rate
    /\ Len(timestamps) = cfg.requestsPerMinute
    /\ \A i \in 1..Len(timestamps) : timestamps[i] = t

\* C18: when exactly cap requests were admitted at time t, the request-rate pool
\* denies a request at t + window - 1 (the governor answers with reason rate once the
\* request is past the concurrency and fairness checks) and admits one at t + window.
ThmC18 ==
    \A t \in 0..MaxTime :
        FullAt(t) =>
            /\ now = t + cfg.windowMs - 1 =>
                  /\ ~RatePool_tryAcquire(timestamps, now, cfg).ok
                  /\ \A req \in Requests(cfg) : \A r \in {Governor_acquire(req)} :
                        (~r.last.idem /\ r.last.reason \notin {"concurrency", "policy"})
                            => ~r.last.granted /\ r.last.reason = "rate"
            /\ now = t + cfg.windowMs =>
                  /\ RatePool_tryAcquire(timestamps, now, cfg).ok
                  /\ RatePool_tryAcquire(timestamps, now, cfg).timestamps = <<>>
                  /\ \A req \in Requests(cfg) : \A r \in {Governor_acquire(req)} :
                        ~cfg.tokenRate => r.last.reason # "rate"

\* a grant at time 0 + window right after the pool had been filled to its cap at time 0:
\* every earlier grant has left the window
WitC18 ==
    /\ FreshGrant
    /\ cfg.rate
    /\ now = cfg.windowMs
    /\ nextId = cfg.requestsPerMinute + 1
    /\ timestamps = <<now>>

-----------------------------------------------------------------------------
\* the token-rate entry of the lease is still inside the window
EntryInWindow(id) ==
    \E i \in 1..Len(entries) :
        entries[i].leaseId = id /\ entries[i].timestamp > now - cfg.windowMs

\* the entries with the tokens of the lease's entry set to n
WithTokens(es, id, n) ==
    [i \in 1..Len(es) |-> IF es[i].leaseId = id THEN [es[i] EXCEPT !.tokens = n] ELSE es[i]]

\* C19: a release with usage supplied replaces the lease's token-rate entry, when it
\* is still inside the window, by prompt_tokens + output_tokens, whatever the estimate
\* was, so that an actual below the estimate lowers the tokens counted in the window
\* by the difference at once.
OrigC19 ==
    \A id \in 1..MaxIds : \A usage \in Usages \ {NoUsage} :
    \A r \in {Governor_release(id, usage, NoLatency)} :
        (cfg.tokenRate /\ HasLease(leases, id) /\ EntryInWindow(id))
        => /\ r.entries = WithTokens(entries, id, usage.promptTokens + usage.outputTokens)
           /\ TokenRatePool_currentTokens(r.entries, now, cfg)
                 = TokenRatePool_currentTokens(
                       WithTokens(entries, id, usage.promptTokens + usage.outputTokens),
                       now, cfg)

-----------------------------------------------------------------------------
\* the number of token-rate entries tagged with the lease id
EntriesOf(id) == Cardinality({i \in 1..Len(entries) : entries[i].leaseId = id})

\* C20 as amended: with token-rate configured, every stored lease has at most one
\* token-rate entry tagged with its id, and exactly one as long as the window has not
\* slid past the time the lease was granted.
ThmC20 ==
    cfg.tokenRate =>
        \A l \in leases :
            /\ EntriesOf(l.leaseId) <= 1
            /\ now - l.createdAt < cfg.windowMs => EntriesOf(l.leaseId) = 1

\* two leases granted inside the current window are stored, each with its one entry
WitC20 ==
    /\ cfg.tokenRate
    /\ Cardinality(leases) = 2
    /\ \A l \in leases : EntriesOf(l.leaseId) = 1 /\ now - l.createdAt < cfg.windowMs
    /\ last.op = "acquire"

\* C20 as stated: with token-rate configured, every stored lease has exactly one
\* token-rate entry tagged with its id for as long as it is in the store.
OrigC20 ==
    cfg.tokenRate => \A l \in leases : EntriesOf(l.leaseId) = 1

-----------------------------------------------------------------------------
\* the pool is under pressure: in_flight_weight >= 0.5 * max_weight
UnderPressure == inFlightWeight * 2 >= cfg.maxInFlight

\* C21: an acquire made while in_flight_weight is below 0.5 * max_weight is never
\* denied with reason policy, whatever the actor already holds.
OrigC21 ==
    cfg.fairness =>
        \A req \in Requests(cfg) : \A r \in {Governor_acquire(req)} :
            ~UnderPressure => r.last.reason # "policy"

\* the actor has a starvation pass: it was denied less than starvation_window_ms ago
HasPass(a) == deniedAt[a] # NoTime /\ now - deniedAt[a] < cfg.starvationWindowMs

\* actor_weight[a] + w > soft_cap_ratio * max_weight
OverSoftCap(a, w) ==
    (actorWeight[a] + w) * cfg.softCapRatio[2] > cfg.maxInFlight * cfg.softCapRatio[1]

\* C22: under pressure and with no starvation pass, an acquire by actor a with weight w
\* that the concurrency pool admits is denied with reason policy if and only if
\* actor_weight[a] + w > soft_cap_ratio * max_weight.
ThmC22 ==
    cfg.fairness =>
        \A req \in Requests(cfg) : \A r \in {Governor_acquire(req)} :
            (/\ UnderPressure
             /\ ~HasPass(req.actorId)
             /\ ~r.last.idem
             /\ r.last.reason # "concurrency")
            => ((r.last.reason = "policy") <=> OverSoftCap(req.actorId, req.weight))

\* under pressure, one actor has just been denied for policy while the other one, which
\* holds less, would be granted
WitC22 ==
    /\ cfg.fairness
    /\ UnderPressure
    /\ DeniedAcquire
    /\ last.reason = "policy"
    /\ \E a, b \in Actors :
          /\ deniedAt[a] = now
          /\ actorWeight[b] < actorWeight[a]
          /\ ~OverSoftCap(b, 1)

-----------------------------------------------------------------------------
\* C23: an over-cap request under pressure by an actor with a denial on record less
\* than starvation_window_ms old passes the fairness check and clears that record, so
\* the pass is used once; with no record, or one as old as the window or older, the
\* request is blocked with reason policy (and the denial is recorded anew).
ThmC23 ==
    cfg.fairness =>
        \A req \in Requests(cfg) : \A r \in {Governor_acquire(req)} :
            (/\ UnderPressure
             /\ OverSoftCap(req.actorId, req.weight)
             /\ ~r.last.idem
             /\ r.last.reason # "concurrency")
            => /\ HasPass(req.actorId)
                     => /\ r.last.reason # "policy"
                        /\ r.deniedAt[req.actorId] = NoTime
               /\ ~HasPass(req.actorId)
                     => /\ r.last.reason = "policy"
                        /\ r.deniedAt[req.actorId] = now

\* a grant made under pressure on a starvation pass: the actor now holds more than its
\* soft cap and its denial record is gone
WitC23 ==
    /\ cfg.fairness
    /\ FreshGrant
    /\ \E l \in leases :
          /\ l.leaseId = last.leaseId
          /\ (inFlightWeight - l.weight) * 2 >= cfg.maxInFlight
          /\ actorWeight[l.actorId] * cfg.softCapRatio[2]
                > cfg.maxInFlight * cfg.softCapRatio[1]
          /\ deniedAt[l.actorId] = NoTime

-----------------------------------------------------------------------------
\* the weight of the leases the actor holds
HeldBy(a) == SumWeights({l \in leases : l.actorId = a})

-----------------------------------------------------------------------------
\* Adaptive governors whose minConcurrency the constructor takes as it is given: above
\* maxInFlight, and zero

AdaptConfigs == {
    [maxInFlight |-> 2, interactiveReserve |-> 0, leaseTtlMs |-> 2,
     rate |-> FALSE, requestsPerMinute |-> 0, tokenRate |-> FALSE, tokensPerMinute |-> 0,
     windowMs |-> 2, fairness |-> FALSE, softCapRatio |-> <<3, 5>>, starvationWindowMs |-> 2,
     adaptive |-> TRUE, adaptiveConfig |-> [DefaultAdaptive EXCEPT !.minConcurrency = 3],
     strict |-> FALSE, onEvent |-> "none"],
    [maxInFlight |-> 2, interactiveReserve |-> 0, leaseTtlMs |-> 2,
     rate |-> FALSE, requestsPerMinute |-> 0, tokenRate |-> FALSE, tokensPerMinute |-> 0,
     windowMs |-> 2, fairness |-> FALSE, softCapRatio |-> <<3, 5>>, starvationWindowMs |-> 2,
     adaptive |-> TRUE, adaptiveConfig |-> [DefaultAdaptive EXCEPT !.minConcurrency = 0],
     strict |-> FALSE, onEvent |-> "none"]
}

AdaptInit == \E c \in AdaptConfigs : Governor_new(c)

AdaptNext ==
    \/ \E req \in Requests(cfg) : Acquire(req)
    \/ \E id \in 1..MaxIds, latencyMs \in ReportLatencies(cfg) :
          Release(id, NoUsage, latencyMs)
    \/ Sweep
    \/ Tick

AdaptSpec == AdaptInit /\ [][AdaptNext]_vars

\* C25: for every configuration the constructor accepts and every sequence of adaptive
\* ticks, effective_max >= min_concurrency >= 1.
OrigC25 ==
    cfg.adaptive =>
        /\ cfg.adaptiveConfig.minConcurrency >= 1
        /\ effectiveMax >= cfg.adaptiveConfig.minConcurrency
        /\ ad.effectiveConcurrency >= cfg.adaptiveConfig.minConcurrency

-----------------------------------------------------------------------------
\* the acquires and denials the controller counted since its previous tick
IntervalTotal == ad.intervalAcquires + ad.intervalDenials

\* an acquire now comes at least adjust_interval_ms after the previous tick, or after the
\* controller's first acquire (which was made at clock reading lastAdjust; a counted
\* acquire with lastAdjust = 0 was made at clock reading 0)
TickDue ==
    /\ cfg.adaptive
    /\ IntervalTotal > 0
    /\ now - ad.lastAdjust >= cfg.adaptiveConfig.adjustIntervalMs

\* the deny-rate EMA after the elapsed interval has been folded in
DenyRateEma ==
    RAdd(RMul(cfg.adaptiveConfig.alpha, Norm(ad.intervalDenials, Max(1, IntervalTotal))),
         RMul(RSub1(cfg.adaptiveConfig.alpha), ad.emaDenyRate))

\* C26: an acquire made at least adjust_interval_ms after the controller's previous
\* tick (or its first acquire), with the deny-rate EMA of the elapsed interval above
\* target_deny_rate, triggers the tick and lowers effective_max by exactly one unit, never
\* below min_concurrency.
OrigC26 ==
    \A req \in Requests(cfg) : \A r \in {Governor_acquire(req)} :
        (TickDue /\ RLess(cfg.adaptiveConfig.targetDenyRate, DenyRateEma))
        => /\ r.ad.lastAdjust = now
           /\ r.effectiveMax = Max(cfg.adaptiveConfig.minConcurrency, effectiveMax - 1)

----------------------------------------------------------------------------
(* Retry hint of a concurrency denial *)

\* a lease is held and the earliest expires_at lies strictly in the future
ExpiryAhead == leases # {} /\ LeaseStore_earliestExpiry(leases)[1] > now

\* ms from now until the earliest expires_at among the held leases
MsToEarliestExpiry == LeaseStore_earliestExpiry(leases)[1] - now

\* round(250 + pressure * 750) with pressure = in_flight_weight / effective_max
PressureHint ==
    MathRound(RAdd(<<250, 1>>, RMul(Norm(inFlightWeight, effectiveMax), <<750, 1>>)))

ConcurrencyDenial == DeniedAcquire /\ last.reason = "concurrency"

\* C27 (as amended): a concurrency denial's retry_after_ms is the time from now until the
\* earliest expires_at among the held leases when that time is positive, and
\* round(250 + pressure * 750) when no lease is held or the earliest one is already due;
\* either value clamped to [25, 5000].
ThmC27 ==
    ConcurrencyDenial =>
        last.retryAfterMs = IF ExpiryAhead
                            THEN Max(RETRY_MIN_MS, Min(RETRY_MAX_MS, MsToEarliestExpiry))
                            ELSE Max(RETRY_MIN_MS, Min(RETRY_MAX_MS, PressureHint))

\* C27 witness: a concurrency denial while a lease with time left is held, answered with
\* exactly that time, strictly inside the clamp.
WitC27 ==
    /\ ConcurrencyDenial /\ ExpiryAhead
    /\ last.retryAfterMs = MsToEarliestExpiry
    /\ last.retryAfterMs > RETRY_MIN_MS /\ last.retryAfterMs < RETRY_MAX_MS

\* C27 as stated: every concurrency denial carries the clamped time to the earliest
\* expires_at among the held leases.
OrigC27 ==
    ConcurrencyDenial =>
        /\ leases # {}
        /\ last.retryAfterMs = Max(RETRY_MIN_MS, Min(RETRY_MAX_MS, MsToEarliestExpiry))

----------------------------------------------------------------------------
(* dispose *)

\* a step taken by a disposed governor
DisposedStep ==
    ~reaperOn =>
        \* the timer is never started again and no sweep runs
        /\ ~reaperOn'
        /\ last'.op # "sweep"
        \* a lease leaves the store only through release of its id
        /\ \A l \in leases :
              l \notin leases' =>
                  last'.op = "release" /\ last'.found /\ last'.leaseId = l.leaseId
        \* a further dispose changes nothing
        /\ last'.op = "dispose" =>
              UNCHANGED <<cfg, now, leases, byIdempotency, reaperOn, inFlightWeight,
                          effectiveMax, timestamps, entries, lastEntryAt, actorWeight,
                          deniedAt, ad, releasedIds, releaseLog, nextId, events, grantLog,
                          wl>>
        \* acquire still reserves the weight of the lease it grants and denies without
        \* a trace in the pool
        /\ (last'.op = "acquire" /\ last'.granted /\ ~last'.idem) =>
              /\ ~HasLease(leases, last'.leaseId)
              /\ HasLease(leases', last'.leaseId)
              /\ inFlightWeight' = inFlightWeight + LeaseOf(leases', last'.leaseId).weight
              /\ inFlightWeight' <= effectiveMax'
        /\ (last'.op = "acquire" /\ ~last'.granted) =>
              leases' = leases /\ inFlightWeight' = inFlightWeight
        \* release still frees the weight of the lease it removes
        /\ (last'.op = "release" /\ last'.found) =>
              /\ HasLease(leases, last'.leaseId)
              /\ leases' = leases \ {LeaseOf(leases, last'.leaseId)}
              /\ inFlightWeight' = inFlightWeight - LeaseOf(leases, last'.leaseId).weight

\* C28: dispose only stops the reaper, once or repeated: after it the timer stays off, no
\* sweep runs, leases leave the store only by release, a repeated dispose changes nothing,
\* and acquire and release go on reserving, refusing and freeing weight.
ThmC28 == [][DisposedStep]_vars

\* C28 witness: a disposed governor still holds a lease whose time is up, and has just
\* granted a fresh lease next to it.
WitC28 ==
    /\ ~reaperOn /\ FreshGrant
    /\ \E l \in leases : Expired(l, now) /\ l.leaseId # last.leaseId

----------------------------------------------------------------------------
(* Idempotency index *)

\* the keys that have an entry in _byIdempotency
IndexedKeys == {k \in Keys : byIdempotency[k] # NoLease}

\* C29: every idempotency-index entry refers to a lease that is in the store and carries
\* that key, and every stored lease that carries a key has its entry: entries come with
\* the lease and go with it, by release or by the reaper.
ThmC29 ==
    /\ \A k \in IndexedKeys :
          /\ HasLease(leases, byIdempotency[k])
          /\ LeaseOf(leases, byIdempotency[k]).idempotencyKey = k
    /\ \A l \in leases :
          l.idempotencyKey # NoKey => byIdempotency[l.idempotencyKey] = l.leaseId

\* C29 witness: the reaper has just removed a lease, and the index still holds the entry
\* of a keyed lease that stays in the store.
WitC29 ==
    /\ last.op = "sweep" /\ last.reaped # {}
    /\ \E k \in IndexedKeys : HasLease(leases, byIdempotency[k])

----------------------------------------------------------------------------
(* Order of the emitted events *)

\* governors with an onEvent handler installed
OrderConfigs == {
    \* a handler that returns
    [maxInFlight |-> 2, interactiveReserve |-> 0, leaseTtlMs |-> 1,
     rate |-> FALSE, requestsPerMinute |-> 0, tokenRate |-> FALSE, tokensPerMinute |-> 0,
     windowMs |-> 2, fairness |-> FALSE, softCapRatio |-> <<3, 5>>, starvationWindowMs |-> 2,
     adaptive |-> FALSE, adaptiveConfig |-> DefaultAdaptive,
     strict |-> FALSE, onEvent |-> "returns"],
    \* fairness, a handler that throws on every event
    [maxInFlight |-> 2, interactiveReserve |-> 0, leaseTtlMs |-> 1,
     rate |-> FALSE, requestsPerMinute |-> 0, tokenRate |-> FALSE, tokensPerMinute |-> 0,
     windowMs |-> 2, fairness |-> TRUE, softCapRatio |-> <<1, 2>>, starvationWindowMs |-> 2,
     adaptive |-> FALSE, adaptiveConfig |-> DefaultAdaptive,
     strict |-> FALSE, onEvent |-> "throws"],
    \* strict mode, a handler that returns
    [maxInFlight |-> 2, interactiveReserve |-> 0, leaseTtlMs |-> 1,
     rate |-> FALSE, requestsPerMinute |-> 0, tokenRate |-> FALSE, tokensPerMinute |-> 0,
     windowMs |-> 2, fairness |-> FALSE, softCapRatio |-> <<3, 5>>, starvationWindowMs |-> 2,
     adaptive |-> FALSE, adaptiveConfig |-> DefaultAdaptive,
     strict |-> TRUE, onEvent |-> "returns"]
}

OrderInit == \E c \in OrderConfigs : Governor_new(c)

OrderNext ==
    \/ \E req \in Requests(cfg) : LiveAcquire(req)
    \/ \E id \in 1..MaxIds : Release(id, NoUsage, NoLatency)
    \/ Sweep
    \/ Dispose
    \/ Tick

\* the clock advances and, while it is set, the reaper timer fires
OrderSpec == OrderInit /\ [][OrderNext]_vars /\ WF_vars(Tick) /\ WF_vars(Sweep)

\* positions in the handler's log of the events of one type for one lease
EventsOf(type, id) ==
    {i \in 1..Len(events) : events[i].type = type /\ events[i].leaseId = id}

\* positions of the terminal events of a lease
Terminals(id) == EventsOf("release", id) \cup EventsOf("expire", id)

\* the log holds one acquire event for a granted id, one terminal event once the lease
\* has left the store and none before, and the terminal event comes after the acquire
LifecycleOrdered(id) ==
    /\ Cardinality(EventsOf("acquire", id)) = IF id <= nextId THEN 1 ELSE 0
    /\ Cardinality(Terminals(id)) = IF id <= nextId /\ ~HasLease(leases, id) THEN 1 ELSE 0
    /\ \A i \in EventsOf("acquire", id) : \A j \in Terminals(id) : i < j

\* acquire events appear in the order in which the leases were granted
GrantOrder ==
    \A i, j \in 1..Len(events) :
        (i < j /\ events[i].type = "acquire" /\ events[j].type = "acquire")
            => events[i].leaseId < events[j].leaseId

\* C30 as stated: every granted lease gets one acquire event, followed later by exactly
\* one terminal event, release or expire.
OrigC30 ==
    \A id \in 1..MaxIds :
        (EventsOf("acquire", id) # {}) ~> (Cardinality(Terminals(id)) = 1)

\* C30 (as amended): with a handler installed, every granted lease gets exactly one acquire
\* event, in grant order; its terminal event, release or expire, never both and never
\* twice, is emitted when the lease leaves the store and not before; and the terminal
\* event does follow unless the governor is disposed with the lease still held.
ThmC30 ==
    /\ [](GrantOrder /\ \A id \in 1..MaxIds : LifecycleOrdered(id))
    /\ \A id \in 1..MaxIds :
          (EventsOf("acquire", id) # {}) ~> (Terminals(id) # {} \/ ~reaperOn)

\* C30 witness: the handler has seen two leases through, one ended by release and the
\* other by the reaper.
WitC30 ==
    /\ Len(events) = 4
    /\ \E a, b \in 1..MaxIds : EventsOf("release", a) # {} /\ EventsOf("expire", b) # {}

----------------------------------------------------------------------------
(* Adaptive ticks over several adjust intervals *)

\* three slots, long leases, an adjust interval of 2 ms
TickConfigs == {
    [maxInFlight |-> 3, interactiveReserve |-> 0, leaseTtlMs |-> 20,
     rate |-> FALSE, requestsPerMinute |-> 0, tokenRate |-> FALSE, tokensPerMinute |-> 0,
     windowMs |-> 2, fairness |-> FALSE, softCapRatio |-> <<3, 5>>, starvationWindowMs |-> 2,
     adaptive |-> TRUE,
     adaptiveConfig |-> [DefaultAdaptive EXCEPT !.adjustIntervalMs = 2],
     strict |-> FALSE, onEvent |-> "none"]
}

\* the readings the clock is set to
TickTimes == {1, 2, 3, 4, 5, 7}

\* at most this many leases are issued in one behaviour of TickSpec
TickIds == 3

\* the requests tried: no idempotency keys
TickRequests == {req \in Requests(cfg) : req.idempotencyKey = NoKey}

\* latencyMs of the release reports
TickLatencies == {NoLatency, 1, 2}

TickInit == \E c \in TickConfigs : Governor_new(c)

TickNext ==
    \/ \E req \in TickRequests : AcquireUpTo(req, TickIds)
    \/ \E id \in 1..TickIds, latencyMs \in TickLatencies : Release(id, NoUsage, latencyMs)
    \/ \E t \in TickTimes : SetNow(t)

TickSpec == TickInit /\ [][TickNext]_vars

\* C33: effective_max changes only in a tick that is due: the controller has started, at
\* least adjust_interval_ms have passed since the last tick, and the tick restarts the
\* interval at the current reading; the start of the interval never moves back. So two
\* successive changes are at least adjust_interval_ms apart, whatever acquires come between.
ThmC33 ==
    [][/\ ad'.lastAdjust >= ad.lastAdjust
       /\ ad'.lastAdjust <= now'
       /\ effectiveMax' # effectiveMax =>
             /\ ad.lastAdjust # 0
             /\ now - ad.lastAdjust >= cfg.adaptiveConfig.adjustIntervalMs
             /\ ad'.lastAdjust = now]_vars

\* C33 witness: effective_max has been changed twice, the second time just now.
WitC33 ==
    /\ cfg.adaptive /\ cfg.adaptiveConfig.adjustIntervalMs = 2
    /\ effectiveMax = cfg.maxInFlight - 2
    /\ last.op = "acquire" /\ ad.lastAdjust = now

----------------------------------------------------------------------------
(* Adaptive tuning next to the rate limiters *)

DenyConfigs == {
    \* adaptive concurrency, one request per window
    [maxInFlight |-> 2, interactiveReserve |-> 0, leaseTtlMs |-> 2,
     rate |-> TRUE, requestsPerMinute |-> 1, tokenRate |-> FALSE, tokensPerMinute |-> 0,
     windowMs |-> 2, fairness |-> FALSE, softCapRatio |-> <<3, 5>>, starvationWindowMs |-> 2,
     adaptive |-> TRUE, adaptiveConfig |-> DefaultAdaptive,
     strict |-> FALSE, onEvent |-> "none"],
    \* adaptive concurrency, fairness, two tokens per window
    [maxInFlight |-> 2, interactiveReserve |-> 0, leaseTtlMs |-> 2,
     rate |-> FALSE, requestsPerMinute |-> 0, tokenRate |-> TRUE, tokensPerMinute |-> 2,
     windowMs |-> 2, fairness |-> TRUE, softCapRatio |-> <<1, 2>>, starvationWindowMs |-> 2,
     adaptive |-> TRUE, adaptiveConfig |-> DefaultAdaptive,
     strict |-> FALSE, onEvent |-> "none"]
}

DenyInit == \E c \in DenyConfigs : Governor_new(c)

DenyNext ==
    \/ \E req \in Requests(cfg) : Acquire(req)
    \/ \E id \in 1..MaxIds : Release(id, NoUsage, NoLatency)
    \/ Sweep
    \/ Tick

DenySpec == DenyInit /\ [][DenyNext]_vars

\* the controller after the tick that opens acquire
Ticked == AdaptiveController_maybeAdjust(ad, cfg.adaptiveConfig, cfg.maxInFlight, now)

\* C34 as stated: every denied acquire, whichever limiter rejected it, adds one to the
\* adaptive controller's interval denial counter.
OrigC34 ==
    cfg.adaptive =>
        \A req \in Requests(cfg) : \A r \in {Governor_acquire(req)} :
            ~r.last.granted => r.ad.intervalDenials = Ticked.intervalDenials + 1

\* C35 as stated: an acquire answered from the idempotency index does not run the
\* adaptive tick and leaves effective_max unchanged.
OrigC35 ==
    cfg.adaptive =>
        \A req \in Requests(cfg) : \A r \in {Governor_acquire(req)} :
            r.last.idem => (r.ad = ad /\ r.effectiveMax = effectiveMax)

----------------------------------------------------------------------------
(* Request-rate cap over every window *)

\* the fresh grants made at a reading in (T - window_ms, T]
GrantsIn(T) ==
    {i \in 1..Len(grantLog) : grantLog[i] > T - cfg.windowMs /\ grantLog[i] <= T}

\* the requests the rate pool counts at the current reading
Counted == RatePool_prune(timestamps, now - cfg.windowMs)

\* C36: under a request-rate cap, at most cap fresh grants fall into (T - window_ms, T]
\* for every T, and the pool counts the fresh grants and nothing else: a denial of any
\* limiter and an idempotency-key hit leave its count as it was.
ThmC36 ==
    cfg.rate =>
        /\ \A T \in 0..MaxTime : Cardinality(GrantsIn(T)) <= cfg.requestsPerMinute
        /\ Len(Counted) = Cardinality(GrantsIn(now))
        /\ \A req \in Requests(cfg) : \A r \in {Governor_acquire(req)} :
              (~r.last.granted \/ r.last.idem) => r.timestamps = Counted \/ r.timestamps = timestamps

\* C36 witness: the cap is used up in the current window, an earlier grant has left the
\* window, and the last acquire was denied for rate.
WitC36 ==
    /\ cfg.rate /\ DeniedAcquire /\ last.reason = "rate"
    /\ Cardinality(GrantsIn(now)) = cfg.requestsPerMinute
    /\ Len(grantLog) > cfg.requestsPerMinute

----------------------------------------------------------------------------
(* What the event handler can observe *)

\* _sweep() then _onExpired(expired): the store and the in-flight weight as they are at
\* each expire event; the store has lost every expired lease before the first event, the
\* pool gives the weights back one lease at a time, in the order of the store
RECURSIVE Governor_expireViews(_, _, _)
Governor_expireViews(inflight, ls, expired) ==
    IF expired = {}
    THEN {}
    ELSE LET lease == CHOOSE l \in expired : \A m \in expired : l.leaseId <= m.leaseId
             inflight1 == ConcurrencyPool_release(inflight, lease.weight)
         IN {[inFlightWeight |-> inflight1, leases |-> ls]}
                \cup Governor_expireViews(inflight1, ls, expired \ {lease})

\* the views of the sweep that would run now
SweepViews ==
    Governor_expireViews(inFlightWeight,
                         LeaseStore_sweep(leases, byIdempotency, now).leases,
                         LeaseStore_sweep(leases, byIdempotency, now).expired)

\* the pool's weight is the weight of the stored leases
Consistent(v) == v.inFlightWeight = SumWeights(v.leases)

\* acquire and release emit as their last statement: the handler sees their result
AcquireViewsConsistent ==
    \A req \in Requests(cfg) : \A r \in {Governor_acquire(req)} :
        ~r.last.idem => Consistent(r)

ReleaseViewsConsistent ==
    \A id \in 1..MaxIds : \A r \in {Governor_release(id, NoUsage, NoLatency)} :
        r.last.found => Consistent(r)

\* C37 as stated: whenever the handler is invoked, for an acquire, deny, release, warn or
\* expire event, in_flight_weight equals the total weight of the leases in the store,
\* also at each expire event of a sweep that expires several leases.
OrigC37 ==
    cfg.onEvent # "none" =>
        /\ AcquireViewsConsistent
        /\ ReleaseViewsConsistent
        /\ reaperOn => \A v \in SweepViews : Consistent(v)

----------------------------------------------------------------------------
(* withLease calls on one governor *)

WLConfigs == {
    [maxInFlight |-> 1, interactiveReserve |-> 0, leaseTtlMs |-> 100,
     rate |-> FALSE, requestsPerMinute |-> 0, tokenRate |-> FALSE, tokensPerMinute |-> 0,
     windowMs |-> 100, fairness |-> FALSE, softCapRatio |-> <<3, 5>>,
     starvationWindowMs |-> 5000, adaptive |-> FALSE, adaptiveConfig |-> DefaultAdaptive,
     strict |-> s, onEvent |-> "none"] : s \in BOOLEAN
}

\* the options the calls are made with
WLStrategies == {"deny", "wait", "wait-then-deny"}
WLMaxWaits == {0, 60, 200}
WLBackoffs == {0, 40, 250}

\* the readings the test clock is set to, besides the times the sleeps end at
WLTimes == {50, 100, 200}

WLInit == \E c \in WLConfigs : Governor_new(c)

WLNext ==
    \/ \E key \in {NoKey, "k1"}, strategy \in WLStrategies, maxWaitMs \in WLMaxWaits,
          initialBackoffMs \in WLBackoffs :
          WL_call("p1", 1, key, strategy, maxWaitMs, initialBackoffMs)
    \/ \E key \in {NoKey, "k1"} : WL_call("p2", 1, key, "deny", 0, 250)
    \/ \E p \in Procs : WL_wake(p)
    \/ \E p \in Procs, fn \in {"returned", "threw"} : WL_settle(p, fn)
    \/ Sweep
    \/ \E t \in WLTimes \cup {wl[p].wakeAt : p \in Procs} : SetNow(t)

WLSpec == WLInit /\ [][WLNext]_vars

\* the calls that obtained a lease and are over
Settled == {p \in Procs : wl[p].pc = "done" /\ wl[p].leaseId # NoLease}

\* C31 as stated: a withLease call that obtained a lease calls governor.release for it
\* exactly once, after fn settled: with outcome success when fn returned, and the call
\* then resolves to granted with fn's result; with outcome error when fn threw, and the
\* call then re-throws fn's error.
OrigC31 ==
    /\ \A p \in Procs : wl[p].pc = "running" => wl[p].releases = 0
    /\ \A p \in Settled :
         /\ wl[p].releases = 1
         /\ wl[p].fn = "returned" => wl[p].result = "granted"
         /\ wl[p].fn = "threw" => wl[p].result = "fnError"

\* a round of the retry loop of call p that ended in a sleep
SleptAgain(p) == wl'[p].pc = "sleeping" /\ wl'[p].attempts > wl[p].attempts

\* C32 as stated: with strategy wait, withLease terminates when denials persist, for
\* every initialBackoffMs and every retry hint: its cumulative wait never exceeds
\* maxWaitMs, each denied round that goes back to sleep adds to the cumulative wait, and
\* a denial met once maxWaitMs is used up is returned to the caller.
OrigC32 ==
    [][\A p \in Procs :
         wl'[p].strategy = "wait" =>
           /\ wl'[p].elapsed <= wl'[p].maxWaitMs
           /\ SleptAgain(p) => wl[p].elapsed < wl'[p].maxWaitMs
           /\ SleptAgain(p) => wl'[p].elapsed > wl[p].elapsed]_vars

\* call p was denied for concurrency with a retry hint strictly inside the clamp's range,
\* slept for exactly the hint, and now retries the same request; the one acquire of the
\* other call came before the denial
RetriedOnHint(p) ==
    /\ reaperOn
    /\ wl[p].pc = "sleeping"
    /\ wl[p].weight = 1
    /\ wl[p].reason = "concurrency"
    /\ wl[p].retryAfterMs > RETRY_MIN_MS /\ wl[p].retryAfterMs < RETRY_MAX_MS
    /\ now = wl[p].deniedAt + wl[p].retryAfterMs
    /\ wl'[p].attempts > wl[p].attempts

Swept == \A l \in leases : ~Expired(l, now)

Running == {p \in Procs : wl[p].pc = "running"}

\* the total weight of the fn bodies that are executing
RunningWeight ==
    SumWeights({[leaseId |-> p, weight |-> wl[p].weight] : p \in Running})

\* every fn that is executing is still within the TTL of its lease
WithinTtl == \A p \in Running : now < wl[p].expiresAt

\* C39 as stated: provided every fn finishes within lease_ttl_ms, the total weight of the
\* fn bodies executing concurrently under withLease on one governor never exceeds
\* max_in_flight, for any interleaving of the calls, calls sharing an idempotency key
\* included.
OrigC39 == WithinTtl => RunningWeight <= cfg.maxInFlight

\* this step is an acquire whose adaptive tick is due and closes the running interval
DueTick ==
    /\ cfg.adaptive
    /\ ad.lastAdjust # 0
    /\ now - ad.lastAdjust >= cfg.adaptiveConfig.adjustIntervalMs
    /\ last'.op = "acquire"

\* the running interval holds a granted acquire, no denial and no latency sample above
\* the baseline
HealthyInterval ==
    /\ ad.intervalAcquires >= 1
    /\ ad.intervalDenials = 0
    /\ ad.hasBaseline =>
         \A i \in 1..Len(ad.latencySamples) :
             RLeq(<<ad.latencySamples[i], 1>>, ad.baselineLatency)

Recovered ==
    /\ RLess(ad'.emaDenyRate, RMul(cfg.adaptiveConfig.targetDenyRate, <<1, 2>>))
    /\ ad'.hasBaseline => RLeq(ad'.emaLatency, RMul(ad'.baselineLatency, <<11, 10>>))

====
